---- MODULE Spec2Model ----
(***************************************************************************)
(* A model of the mbox crate: malloc-backed owning boxes (MBox<T>,         *)
(* MBox<[T]>, MBox<str>), the Free capability, the allocation primitives   *)
(* gen_malloc / gen_free / gen_realloc, the growable MSliceBuilder and the *)
(* consuming iterator MSliceIntoIter.                                      *)
(*                                                                         *)
(* The heap is a finite set of blocks; a pointer is either a block number, *)
(* DANGLING (NonNull::dangling(), the zero-size sentinel) or NULL.  Every  *)
(* value with a destructor carries a ghost identity so that the number of  *)
(* destructor runs per value can be counted.                               *)
(***************************************************************************)
EXTENDS Integers, Sequences, FiniteSets, TLC

\* ---------------------------------------------------------------- bounds
MaxBlocks == 2      \* blocks the C heap can hand out before it is exhausted
MaxLen == 2         \* longest source slice / produced iterator
MaxId == 4          \* value instances with a destructor the caller may create
MaxVal == 1         \* payloads 0..MaxVal of a value
UsizeBits == 8      \* width of usize in the model
MaxCalls == 4       \* direct calls of the allocation primitives in a run

\* ------------------------------------------------------------- pointers
DANGLING == 0       \* NonNull::dangling(): the canonical sentinel handle
NULL == -1          \* the null result of the C allocator
Blocks == 1..MaxBlocks
Boxes == {1, 2}      \* the box variables of the caller: no operation involves more than two boxes

\* --------------------------------------------------------------- values
TKinds == {"zst", "dc", "u8"}   \* the element type T of a run
ZstId == 0          \* the one identity all zero-sized values share
NoDropId == -1      \* a value without drop glue (u8)
UninitId == -2      \* an uninitialised slot
Uninit == [id |-> UninitId, val |-> 0]
ZstCell == [id |-> ZstId, val |-> 0]
Bytes == {104, 195, 136}   \* 'h'; 0xC3 0x88 is U+00C8; a lone 0x88 or 0xC3 is invalid

VARIABLES
    tkind,      \* the element type T: zero-sized, sized with a destructor, or u8
    heap,       \* block -> [st, cells, frees]
    cnt,        \* calls made by the crate: malloc, realloc, free, gen_free; values made
    drops,      \* value identity -> number of destructor runs
    ub,         \* undefined behaviour that has happened
    nextId,     \* next fresh value identity
    box,        \* box variable -> [st, kind, ptr, len]
    raws,       \* raw handles the caller holds after into_raw
    bld,        \* the MSliceBuilder of the from_slice / from_iter in progress
    it,         \* the MSliceIntoIter
    held,       \* values the caller owns outside any box (yielded by the iterator)
    status,     \* "running", or "aborted" after handle_alloc_error
    last        \* the last operation and what it returned

vars == <<tkind, heap, cnt, drops, ub, nextId, box, raws, bld, it, held, status, last>>

UsizeMax == 2^UsizeBits - 1

\* size_of::<T>()
SizeOfT == CASE tkind = "zst" -> 0 [] tkind = "u8" -> 1 [] OTHER -> 8

\* The memory the allocation primitives and destructors act on, as one value.
M == [heap |-> heap, cnt |-> cnt, drops |-> drops, ub |-> ub]

SetM(m) ==
    /\ heap' = m.heap
    /\ cnt' = m.cnt
    /\ drops' = m.drops
    /\ ub' = m.ub

IsLive(m, ptr) == ptr \in Blocks /\ m.heap[ptr].st = "live"

\* The block the C allocator hands out next (NULL when the heap is exhausted).
Fresh(m) ==
    IF \E b \in Blocks : m.heap[b].st = "unalloc"
    THEN CHOOSE b \in Blocks : /\ m.heap[b].st = "unalloc"
                               /\ \A c \in Blocks : m.heap[c].st = "unalloc" => b <= c
    ELSE NULL

\* What malloc may answer: null, or a fresh block.
MallocAnswers(m) == {NULL, Fresh(m)}

\* What realloc may answer: null, the same block (grown in place), or a fresh block.
ReallocAnswers(m, ptr) == {NULL, ptr, Fresh(m)}

\* usize::checked_mul; NULL stands for None
checked_mul(a, b) == IF a * b > UsizeMax THEN NULL ELSE a * b

\* ------------------------------------------------- the C heap (libc)
\* posix_memalign / malloc of `size` bytes answering `res`.
malloc_aligned(m, size, res) ==
    IF res = NULL
    THEN [m |-> [m EXCEPT !.cnt.malloc = @ + 1], ptr |-> NULL]
    ELSE [m |-> [m EXCEPT !.cnt.malloc = @ + 1,
                          !.heap[res] = [st |-> "live",
                                         cells |-> [i \in 1..(size \div SizeOfT) |-> Uninit],
                                         frees |-> 0]],
          ptr |-> res]

\* libc::free
libc_free(m, ptr) ==
    IF IsLive(m, ptr)
    THEN [m EXCEPT !.cnt.free = @ + 1,
                   !.heap[ptr].st = "freed",
                   !.heap[ptr].frees = @ + 1]
    ELSE IF ptr \in Blocks
    THEN [m EXCEPT !.cnt.free = @ + 1,
                   !.heap[ptr].frees = @ + 1,
                   !.ub = @ \cup {"free of a block that is not live"}]
    ELSE [m EXCEPT !.cnt.free = @ + 1,
                   !.ub = @ \cup {"free of the sentinel"}]

\* libc::realloc to `size` bytes answering `res`: the first min(old, new) slots are
\* preserved; a null answer leaves the block as it was; a move retires the old block.
libc_realloc(m, ptr, size, res) ==
    LET n == size \div SizeOfT
        old == m.heap[ptr].cells
        new == [i \in 1..n |-> IF i <= Len(old) THEN old[i] ELSE Uninit]
        m1 == [m EXCEPT !.cnt.realloc = @ + 1]
    IN  IF ptr = DANGLING
        THEN [m |-> [m1 EXCEPT !.ub = @ \cup {"realloc of the sentinel"}], ptr |-> NULL]
        ELSE IF ~IsLive(m, ptr)
        THEN [m |-> [m1 EXCEPT !.ub = @ \cup {"realloc of a block that is not live"}],
              ptr |-> NULL]
        ELSE IF res = NULL THEN [m |-> m1, ptr |-> NULL]
        ELSE IF res = ptr THEN [m |-> [m1 EXCEPT !.heap[ptr].cells = new], ptr |-> ptr]
        ELSE [m |-> [m1 EXCEPT !.heap[ptr].st = "moved",
                               !.heap[res] = [st |-> "live", cells |-> new, frees |-> 0]],
              ptr |-> res]

\* ------------------------------------------- the allocation primitives
\* A faulty gen_malloc that asks the C allocator even for a count of zero.
gen_malloc_count_unchecked(m, count, res) ==
    IF SizeOfT = 0
    THEN [m |-> m, ptr |-> DANGLING, out |-> "ok"]
    ELSE LET r == malloc_aligned(m, count * SizeOfT, res) IN
         IF r.ptr = NULL
         THEN [m |-> r.m, ptr |-> NULL, out |-> "abort"]
         ELSE [m |-> r.m, ptr |-> r.ptr, out |-> "ok"]

\* A faulty gen_malloc without the case of the zero-size T: it asks the C allocator
\* for count slots of no bytes.
gen_malloc_no_zst_case(m, count, res) ==
    IF count = 0
    THEN [m |-> m, ptr |-> DANGLING, out |-> "ok"]
    ELSE IF res = NULL
    THEN [m |-> [m EXCEPT !.cnt.malloc = @ + 1], ptr |-> NULL, out |-> "abort"]
    ELSE [m |-> [m EXCEPT !.cnt.malloc = @ + 1,
                          !.heap[res] = [st |-> "live",
                                         cells |-> [i \in 1..count |-> Uninit],
                                         frees |-> 0]],
          ptr |-> res, out |-> "ok"]

\* A faulty gen_malloc that reports an overflowing size through handle_alloc_error.
gen_malloc_overflow_abort(m, count, res) ==
    IF SizeOfT = 0 \/ count = 0
    THEN [m |-> m, ptr |-> DANGLING, out |-> "ok"]
    ELSE LET requested_size == checked_mul(count, SizeOfT) IN
         IF requested_size = NULL
         THEN [m |-> m, ptr |-> NULL, out |-> "abort"]
         ELSE LET r == malloc_aligned(m, requested_size, res) IN
              IF r.ptr = NULL
              THEN [m |-> r.m, ptr |-> NULL, out |-> "abort"]
              ELSE [m |-> r.m, ptr |-> r.ptr, out |-> "ok"]

\* gen_malloc::<T>(count).  out is "ok", "panic" (expect("memory overflow")
\* unwinds) or "abort" (handle_alloc_error ends the process).
gen_malloc(m, count, res) ==
    IF SizeOfT = 0 \/ count = 0
    THEN [m |-> m, ptr |-> DANGLING, out |-> "ok"]
    ELSE LET requested_size == checked_mul(count, SizeOfT) IN
         IF requested_size = NULL
         THEN [m |-> m, ptr |-> NULL, out |-> "panic"]
         ELSE LET r == malloc_aligned(m, requested_size, res) IN
              IF r.ptr = NULL
              THEN [m |-> r.m, ptr |-> NULL, out |-> "abort"]
              ELSE [m |-> r.m, ptr |-> r.ptr, out |-> "ok"]

\* A faulty gen_free that hands every pointer, the sentinel too, to libc::free.
gen_free_unchecked(m, ptr) == libc_free([m EXCEPT !.cnt.gen_free = @ + 1], ptr)

\* gen_free(ptr)
gen_free(m, ptr) ==
    LET m1 == [m EXCEPT !.cnt.gen_free = @ + 1] IN
    IF ptr # DANGLING THEN libc_free(m1, ptr) ELSE m1

\* A faulty gen_realloc without the case of the sentinel: it reaches libc::realloc.
gen_realloc_no_sentinel_case(m, ptr, new_count, res) ==
    IF SizeOfT = 0
    THEN [m |-> m, ptr |-> ptr, out |-> "ok"]
    ELSE IF new_count = 0
    THEN [m |-> gen_free(m, ptr), ptr |-> DANGLING, out |-> "ok"]
    ELSE LET requested_size == checked_mul(new_count, SizeOfT) IN
         IF requested_size = NULL
         THEN [m |-> m, ptr |-> NULL, out |-> "abort"]
         ELSE LET r == libc_realloc(m, ptr, requested_size, res) IN
              IF r.ptr = NULL
              THEN [m |-> r.m, ptr |-> NULL, out |-> "abort"]
              ELSE [m |-> r.m, ptr |-> r.ptr, out |-> "ok"]

\* A faulty gen_realloc whose size overflow is an unwinding panic, as in gen_malloc.
gen_realloc_overflow_panic(m, ptr, new_count, res) ==
    IF SizeOfT = 0
    THEN [m |-> m, ptr |-> ptr, out |-> "ok"]
    ELSE IF new_count = 0
    THEN [m |-> gen_free(m, ptr), ptr |-> DANGLING, out |-> "ok"]
    ELSE IF ptr = DANGLING
    THEN gen_malloc(m, new_count, res)
    ELSE LET requested_size == checked_mul(new_count, SizeOfT) IN
         IF requested_size = NULL
         THEN [m |-> m, ptr |-> NULL, out |-> "panic"]
         ELSE LET r == libc_realloc(m, ptr, requested_size, res) IN
              IF r.ptr = NULL
              THEN [m |-> r.m, ptr |-> NULL, out |-> "abort"]
              ELSE [m |-> r.m, ptr |-> r.ptr, out |-> "ok"]

\* gen_realloc(ptr, new_count)
gen_realloc(m, ptr, new_count, res) ==
    IF SizeOfT = 0
    THEN [m |-> m, ptr |-> ptr, out |-> "ok"]
    ELSE IF new_count = 0
    THEN [m |-> gen_free(m, ptr), ptr |-> DANGLING, out |-> "ok"]
    ELSE IF ptr = DANGLING
    THEN gen_malloc(m, new_count, res)
    ELSE LET requested_size == checked_mul(new_count, SizeOfT) IN
         IF requested_size = NULL
         THEN [m |-> m, ptr |-> NULL, out |-> "abort"]
         ELSE LET r == libc_realloc(m, ptr, requested_size, res) IN
              IF r.ptr = NULL
              THEN [m |-> r.m, ptr |-> NULL, out |-> "abort"]
              ELSE [m |-> r.m, ptr |-> r.ptr, out |-> "ok"]

\* ------------------------------------------------- reads, writes, drops
\* ptr::read(ptr.offset(i)): a bitwise copy; the slot keeps its bits.
read(m, ptr, i) ==
    IF SizeOfT = 0 THEN ZstCell
    ELSE IF IsLive(m, ptr) /\ i < Len(m.heap[ptr].cells)
    THEN m.heap[ptr].cells[i + 1]
    ELSE Uninit

\* ptr::write(ptr.offset(i), c): no destructor runs for what the slot held.
write(m, ptr, i, c) ==
    IF SizeOfT = 0 THEN m
    ELSE IF IsLive(m, ptr) /\ i < Len(m.heap[ptr].cells)
    THEN [m EXCEPT !.heap[ptr].cells[i + 1] = c]
    ELSE [m EXCEPT !.ub = @ \cup {"write outside a live allocation"}]

\* The destructor of one value.
drop_value(m, c) ==
    IF c.id = NoDropId THEN m
    ELSE IF c.id = UninitId
    THEN [m EXCEPT !.ub = @ \cup {"drop of an uninitialised slot"}]
    ELSE [m EXCEPT !.drops[c.id] = @ + 1]

\* drop_in_place(ptr.offset(i)) of one T.
drop_in_place(m, ptr, i) == drop_value(m, read(m, ptr, i))

\* drop_in_place of the slice [from, from + len) at ptr, front to back.
RECURSIVE drop_in_place_slice(_, _, _, _)
drop_in_place_slice(m, ptr, from, len) ==
    IF len = 0 THEN m
    ELSE drop_in_place_slice(drop_in_place(m, ptr, from), ptr, from + 1, len - 1)

\* ------------------------------------------------------ Free capability
\* A faulty free that releases the memory without running the destructor.
free_without_drop(m, ptr) == gen_free(m, ptr)

\* free_ptr_ref / impl<T> Free for T
free_T(m, ptr) == gen_free(drop_in_place(m, ptr, 0), ptr)

\* A faulty Free for [T] that releases the memory before destroying the elements.
free_slice_release_first(m, ptr, len) == drop_in_place_slice(gen_free(m, ptr), ptr, 0, len)

\* A faulty Free for [T] that takes a sequence of length 0 for one without storage.
free_slice_skipping_empty(m, ptr, len) ==
    IF len = 0 THEN m ELSE gen_free(drop_in_place_slice(m, ptr, 0, len), ptr)

\* impl<T> Free for [T]: the thin pointer is the slice's start.
free_slice(m, ptr, len) ==
    LET thin_ptr == ptr IN
    gen_free(drop_in_place_slice(m, ptr, 0, len), thin_ptr)

\* impl Free for str: the same allocation seen as [u8].
free_str(m, ptr, len) == free_slice(m, ptr, len)

\* T::free for the pointee shape `kind`.
Free(m, kind, ptr, len) ==
    CASE kind = "val" -> free_T(m, ptr)
      [] kind = "seq" -> free_slice(m, ptr, len)
      [] OTHER -> free_str(m, ptr, len)

\* ------------------------------------------------------- the caller
NoBox == [st |-> "none", kind |-> "val", ptr |-> DANGLING, len |-> 0]
NoBuilder == [st |-> "idle", ptr |-> DANGLING, cap |-> 0, len |-> 0,
              src |-> <<>>, dst |-> 0, cap0 |-> 0, pushed |-> <<>>]
NoIter == [st |-> "none", ptr |-> DANGLING, begin |-> 0, end |-> 0, n |-> 0]

\* Box variables are taken in order: a new box goes into the first unused one.
FirstFree(b) == box[b].st = "none" /\ \A c \in Boxes : box[c].st = "none" => b <= c

\* The caller may start an operation: the process runs and no build is in progress.
Building == bld.st \in {"slice", "iter"}
Idle == status = "running" /\ ~Building

\* The payloads a value of type T can carry.
Vals == CASE tkind = "zst" -> {0} [] tkind = "u8" -> Bytes [] OTHER -> 0..MaxVal

\* The caller may create another value.
CanMake(k) == cnt.made + k <= MaxId

\* The k-th value the caller creates from now on, with payload v.
MkCell(v, k) ==
    CASE tkind = "zst" -> ZstCell
      [] tkind = "u8" -> [id |-> NoDropId, val |-> v]
      [] OTHER -> [id |-> nextId + k, val |-> v]

\* Bookkeeping of k values coming into existence.
Made(m, k) == [m EXCEPT !.cnt.made = @ + k]

NextIdAfter(k) == IF tkind = "dc" THEN nextId + k ELSE nextId

\* Whether T's clone may panic: u8 is Copy.
ClonePanics == IF tkind = "u8" THEN {FALSE} ELSE BOOLEAN

\* What an operation leaves behind: the memory, the process status, the result.
Outcome(m, op, out) ==
    /\ SetM(m)
    /\ status' = IF out = "abort" THEN "aborted" ELSE status
    /\ last' = [op |-> op, out |-> out, ptr |-> DANGLING]

\* impl Drop for MBox: T::free(self.as_mut_ptr())
mbox_drop(m, bx) == Free(m, bx.kind, bx.ptr, bx.len)

\* MBox::from_raw(ptr): the box is the pointer.
from_raw(kind, ptr, len) == [st |-> "live", kind |-> kind, ptr |-> ptr, len |-> len]

\* MBox::new(value), with the C allocator answering res.
mbox_new(m, value, res) ==
    LET r == gen_malloc(m, 1, res) IN
    IF r.out = "ok"
    THEN [m |-> write(r.m, r.ptr, 0, value), ptr |-> r.ptr, out |-> "ok"]
    ELSE IF r.out = "panic"
    THEN [m |-> drop_value(r.m, value), ptr |-> NULL, out |-> "panic"]
    ELSE [m |-> r.m, ptr |-> NULL, out |-> "abort"]

\* let b = MBox::new(value)
New(b, v, res) ==
    /\ Idle /\ FirstFree(b) /\ CanMake(1)
    /\ LET r == mbox_new(Made(M, 1), MkCell(v, 0), res) IN
       /\ Outcome(r.m, "new", r.out)
       /\ box' = IF r.out = "ok"
                 THEN [box EXCEPT ![b] = from_raw("val", r.ptr, 1)]
                 ELSE box
    /\ nextId' = NextIdAfter(1)
    /\ UNCHANGED <<tkind, raws, bld, it, held>>

\* The caller obtains memory from the C heap itself, initialises one value in it
\* and wraps it: MBox::from_raw(ptr).  For a zero-sized T any non-null pointer
\* will do, a real block or the sentinel.
ForeignNew(b, v, ptr) ==
    /\ Idle /\ FirstFree(b) /\ CanMake(1)
    /\ ptr # NULL
    /\ ptr = DANGLING => SizeOfT = 0
    /\ LET cells == IF SizeOfT = 0 THEN <<>> ELSE <<MkCell(v, 0)>>
           m1 == IF ptr = DANGLING THEN M
                 ELSE [M EXCEPT !.heap[ptr] = [st |-> "live", cells |-> cells, frees |-> 0]]
       IN Outcome(Made(m1, 1), "from_raw", "ok")
    /\ box' = [box EXCEPT ![b] = from_raw("val", ptr, 1)]
    /\ nextId' = NextIdAfter(1)
    /\ UNCHANGED <<tkind, raws, bld, it, held>>

\* Moving a box from one variable to another: the source variable is dead and
\* may be assigned again.
Move(b, b2) ==
    /\ Idle /\ box[b].st = "live" /\ FirstFree(b2)
    /\ box' = [box EXCEPT ![b2] = box[b], ![b] = NoBox]
    /\ last' = [op |-> "move", out |-> "ok", ptr |-> DANGLING]
    /\ UNCHANGED <<tkind, heap, cnt, drops, ub, nextId, raws, bld, it, held, status>>

\* A faulty into_raw that returns the pointer but lets the box be dropped as well.
into_raw_without_forget(b) ==
    /\ Idle /\ box[b].st = "live"
    /\ Outcome(mbox_drop(M, box[b]), "into_raw", "ok")
    /\ box' = [box EXCEPT ![b] = NoBox]
    /\ raws' = Append(raws, [kind |-> box[b].kind, ptr |-> box[b].ptr, len |-> box[b].len])
    /\ UNCHANGED <<tkind, nextId, bld, it, held>>

\* MBox::into_raw(self): forget(self), return the pointer.
IntoRaw(b) ==
    /\ Idle /\ box[b].st = "live"
    /\ LET ptr == box[b].ptr IN
       /\ box' = [box EXCEPT ![b] = NoBox]
       /\ raws' = Append(raws, [kind |-> box[b].kind, ptr |-> ptr, len |-> box[b].len])
       /\ last' = [op |-> "into_raw", out |-> "ok", ptr |-> DANGLING]
    /\ UNCHANGED <<tkind, heap, cnt, drops, ub, nextId, bld, it, held, status>>

RemoveAt(s, i) == [j \in 1..(Len(s) - 1) |-> IF j < i THEN s[j] ELSE s[j + 1]]

\* MBox::from_raw(ptr) of a handle obtained from into_raw.
FromRaw(i, b) ==
    /\ Idle /\ i \in 1..Len(raws) /\ FirstFree(b)
    /\ box' = [box EXCEPT ![b] = from_raw(raws[i].kind, raws[i].ptr, raws[i].len)]
    /\ raws' = RemoveAt(raws, i)
    /\ last' = [op |-> "from_raw", out |-> "ok", ptr |-> DANGLING]
    /\ UNCHANGED <<tkind, heap, cnt, drops, ub, nextId, bld, it, held, status>>

\* The caller releases a raw handle itself: Free::free(ptr).
RawFree(i) ==
    /\ Idle /\ i \in 1..Len(raws)
    /\ Outcome(Free(M, raws[i].kind, raws[i].ptr, raws[i].len), "raw_free", "ok")
    /\ raws' = RemoveAt(raws, i)
    /\ UNCHANGED <<tkind, nextId, box, bld, it, held>>

\* The box variable goes out of scope (or drop(b) is called).
DropBox(b) ==
    /\ Idle /\ box[b].st = "live"
    /\ Outcome(mbox_drop(M, box[b]), "drop", "ok")
    /\ box' = [box EXCEPT ![b].st = "dropped"]
    /\ UNCHANGED <<tkind, nextId, raws, bld, it, held>>

\* A faulty clone that copies the bits: the copy is the same instance as the original.
clone_bitwise(c, k) == c

\* T::clone of one value: a new instance with the same payload.
clone_value(c, k) ==
    IF c.id = NoDropId \/ c.id = ZstId THEN c ELSE [id |-> nextId + k, val |-> c.val]

\* A faulty clone that obtains the clone's storage before cloning the value.
clone_allocating_first(m, bx, p, res) ==
    LET r == gen_malloc(m, 1, res) IN
    IF r.out # "ok" THEN [m |-> r.m, ptr |-> NULL, out |-> r.out]
    ELSE IF p THEN [m |-> r.m, ptr |-> NULL, out |-> "panic"]
    ELSE [m |-> write(Made(r.m, 1), r.ptr, 0, clone_value(read(m, bx.ptr, 0), 0)),
          ptr |-> r.ptr, out |-> "ok"]

\* impl Clone for MBox<T>::clone: MBox::new(value.clone()); p: the clone panics.
mbox_clone(m, bx, p, res) ==
    IF p THEN [m |-> m, ptr |-> NULL, out |-> "panic"]
    ELSE mbox_new(Made(m, 1), clone_value(read(m, bx.ptr, 0), 0), res)

CloneVal(b, b2, p, res) ==
    /\ Idle /\ box[b].st = "live" /\ box[b].kind = "val" /\ FirstFree(b2)
    /\ CanMake(1)
    /\ LET r == mbox_clone(M, box[b], p, res) IN
       /\ Outcome(r.m, "clone", r.out)
       /\ box' = IF r.out = "ok"
                 THEN [box EXCEPT ![b2] = from_raw("val", r.ptr, 1)]
                 ELSE box
       /\ nextId' = IF p THEN nextId ELSE NextIdAfter(1)
    /\ UNCHANGED <<tkind, raws, bld, it, held>>

\* A faulty clone_from that destroys the old pointee before cloning the source.
clone_from_drop_first(m, self, source, p) ==
    LET ptr == self.ptr
        m1 == drop_in_place(m, ptr, 0)
    IN  IF p THEN [m |-> m1, out |-> "panic"]
        ELSE [m |-> write(Made(m1, 1), ptr, 0, clone_value(read(m, source.ptr, 0), 0)),
              out |-> "ok"]

\* A faulty clone_from that overwrites the old pointee without destroying it.
clone_from_without_drop(m, self, source, p) ==
    LET ptr == self.ptr IN
    IF p THEN [m |-> m, out |-> "panic"]
    ELSE LET clone == clone_value(read(m, source.ptr, 0), 0)
         IN [m |-> write(Made(m, 1), ptr, 0, clone), out |-> "ok"]

\* impl Clone for MBox<T>::clone_from(&mut self, source); p: the clone panics.
mbox_clone_from(m, self, source, p) ==
    LET ptr == self.ptr IN
    IF p THEN [m |-> m, out |-> "panic"]
    ELSE LET clone == clone_value(read(m, source.ptr, 0), 0)
             m1 == drop_in_place(Made(m, 1), ptr, 0)
         IN [m |-> write(m1, ptr, 0, clone), out |-> "ok"]

CloneFrom(b, b2, p) ==
    /\ Idle /\ b # b2
    /\ box[b].st = "live" /\ box[b].kind = "val"
    /\ box[b2].st = "live" /\ box[b2].kind = "val"
    /\ CanMake(1)
    /\ LET r == mbox_clone_from(M, box[b], box[b2], p) IN
       /\ Outcome(r.m, "clone_from", r.out)
       /\ nextId' = IF p THEN nextId ELSE NextIdAfter(1)
    /\ UNCHANGED <<tkind, box, raws, bld, it, held>>

\* clone_from when the destructor of the destination's old pointee panics: the
\* clone was made and is dropped by the unwinding, write(ptr, clone) is not
\* reached; q: the clone's destructor panics as well, which ends the process.
clone_from_drop_panics(m, self, source, q) ==
    LET ptr == self.ptr
        clone == clone_value(read(m, source.ptr, 0), 0)
        m1 == drop_in_place(Made(m, 1), ptr, 0)
    IN [m |-> drop_value(m1, clone), out |-> IF q THEN "abort" ELSE "drop_panic"]

CloneFromDropPanic(b, b2, q) ==
    /\ Idle /\ b # b2 /\ tkind = "dc"
    /\ box[b].st = "live" /\ box[b].kind = "val"
    /\ box[b2].st = "live" /\ box[b2].kind = "val"
    /\ CanMake(1)
    /\ LET r == clone_from_drop_panics(M, box[b], box[b2], q) IN
       /\ Outcome(r.m, "clone_from", r.out)
       /\ nextId' = NextIdAfter(1)
    /\ UNCHANGED <<tkind, box, raws, bld, it, held>>

\* DerefMut: the caller changes the payload of element i in place.
Mutate(b, i, v) ==
    /\ Idle /\ box[b].st = "live" /\ box[b].kind # "str" /\ SizeOfT # 0
    /\ i < box[b].len
    /\ read(M, box[b].ptr, i).val # v
    /\ Outcome(write(M, box[b].ptr, i, [read(M, box[b].ptr, i) EXCEPT !.val = v]),
               "deref_mut", "ok")
    /\ UNCHANGED <<tkind, nextId, box, raws, bld, it, held>>

\* ------------------------------------------------------ MSliceBuilder
\* MSliceBuilder::with_capacity(cap)
with_capacity(m, cap, res) ==
    LET r == gen_malloc(m, cap, res) IN
    [m |-> r.m, ptr |-> r.ptr, cap |-> cap, len |-> 0, out |-> r.out]

\* A faulty push that reallocates but keeps writing through the old pointer.
push_keeping_old_pointer(m, b, obj, res) ==
    LET grow == b.len >= b.cap
        cap1 == IF grow THEN (b.cap * 2) % (UsizeMax + 1) ELSE b.cap
        r == IF grow THEN gen_realloc(m, b.ptr, cap1, res)
             ELSE [m |-> m, ptr |-> b.ptr, out |-> "ok"]
    IN  IF r.out = "ok"
        THEN [m |-> write(r.m, b.ptr, b.len, obj),
              b |-> [b EXCEPT !.cap = cap1, !.len = @ + 1],
              out |-> "ok"]
        ELSE [m |-> r.m, b |-> [b EXCEPT !.cap = cap1], out |-> r.out]

\* A faulty push that grows the capacity by one slot instead of doubling it.
push_growing_by_one(m, b, obj, res) ==
    LET grow == b.len >= b.cap
        cap1 == IF grow THEN (b.cap + 1) % (UsizeMax + 1) ELSE b.cap
        r == IF grow THEN gen_realloc(m, b.ptr, cap1, res)
             ELSE [m |-> m, ptr |-> b.ptr, out |-> "ok"]
    IN  IF r.out = "ok"
        THEN [m |-> write(r.m, r.ptr, b.len, obj),
              b |-> [b EXCEPT !.cap = cap1, !.ptr = r.ptr, !.len = @ + 1],
              out |-> "ok"]
        ELSE [m |-> r.m, b |-> [b EXCEPT !.cap = cap1], out |-> r.out]

\* MSliceBuilder::push(obj) on the builder b (its ptr, cap and len).
push(m, b, obj, res) ==
    LET grow == b.len >= b.cap
        cap1 == IF grow THEN (b.cap * 2) % (UsizeMax + 1) ELSE b.cap
        r == IF grow THEN gen_realloc(m, b.ptr, cap1, res)
             ELSE [m |-> m, ptr |-> b.ptr, out |-> "ok"]
    IN  IF r.out = "ok"
        THEN [m |-> write(r.m, r.ptr, b.len, obj),
              b |-> [b EXCEPT !.cap = cap1, !.ptr = r.ptr, !.len = @ + 1],
              out |-> "ok"]
        ELSE [m |-> r.m, b |-> [b EXCEPT !.cap = cap1], out |-> r.out]

\* What the C allocator may answer to the allocation a push makes, if it makes one.
PushAnswers(m, b) ==
    IF b.len < b.cap \/ SizeOfT = 0 THEN {NULL}
    ELSE IF b.ptr = DANGLING THEN MallocAnswers(m)
    ELSE ReallocAnswers(m, b.ptr)

\* MBox::<[T]>::from_raw_parts(value, len)
from_raw_parts(value, len) == from_raw("seq", value, len)

\* MSliceBuilder::as_mboxed_slice
as_mboxed_slice(b) == from_raw_parts(b.ptr, b.len)

\* A faulty builder drop that treats every slot up to the capacity as initialised.
builder_drop_capacity(m, b) == mbox_drop(m, from_raw_parts(b.ptr, b.cap))

\* impl Drop for MSliceBuilder: the temporary box of as_mboxed_slice is dropped.
builder_drop(m, b) == mbox_drop(m, as_mboxed_slice(b))

\* The elements of a sequence box, as the borrowed slice &[T].
Slice(m, bx) == [i \in 1..bx.len |-> read(m, bx.ptr, i - 1)]

ByteSeqs == UNION {[1..n -> Bytes] : n \in 0..MaxLen}

\* The start of a build: the builder, what it is building from and for.
StartBuild(st, w, src, dst) ==
    [st |-> st, ptr |-> w.ptr, cap |-> w.cap, len |-> 0, src |-> src, dst |-> dst,
     cap0 |-> w.cap, pushed |-> <<>>]

\* A faulty from_slice that starts its builder at capacity 1 whatever the source.
from_slice_begin_capacity_one(src, dst, op, res) ==
    LET w == with_capacity(M, 1, res) IN
    /\ Outcome(w.m, op, w.out)
    /\ bld' = IF w.out = "ok" THEN StartBuild("slice", w, src, dst) ELSE bld

\* MBox::<[T]>::from_slice(slice), up to the loop: with_capacity(slice.len()).
from_slice_begin(src, dst, op, res) ==
    LET w == with_capacity(M, Len(src), res) IN
    /\ Outcome(w.m, op, w.out)
    /\ bld' = IF w.out = "ok" THEN StartBuild("slice", w, src, dst) ELSE bld

\* impl Clone for MBox<[T]>::clone: Self::from_slice(self)
CloneSeq(b, dst, res) ==
    /\ Idle /\ bld.st = "idle" /\ box[b].st = "live" /\ box[b].kind = "seq" /\ FirstFree(dst)
    /\ from_slice_begin(Slice(M, box[b]), dst, "clone", res)
    /\ UNCHANGED <<tkind, nextId, box, raws, it, held>>

\* MBox::from_slice(b"...") of a byte literal
FromSlice(s, dst, res) ==
    /\ Idle /\ bld.st = "idle" /\ tkind = "u8" /\ FirstFree(dst)
    /\ from_slice_begin([i \in 1..Len(s) |-> [id |-> NoDropId, val |-> s[i]]],
                        dst, "from_slice", res)
    /\ UNCHANGED <<tkind, nextId, box, raws, it, held>>

\* One turn of the loop of from_slice: builder.push(item.clone()); p: the clone
\* panics, and unwinding drops the builder.
FromSliceStep(p, res) ==
    /\ status = "running" /\ bld.st = "slice" /\ bld.len < Len(bld.src)
    /\ p \/ CanMake(1)
    /\ IF p
       THEN /\ Outcome(builder_drop(M, bld), "from_slice", "panic")
            /\ bld' = [bld EXCEPT !.st = "dropped"]
            /\ nextId' = nextId
       ELSE LET obj == clone_value(bld.src[bld.len + 1], 0)
                r == push(Made(M, 1), bld, obj, res)
            IN  /\ r.out = "ok"
                /\ Outcome(r.m, "push", r.out)
                /\ bld' = [r.b EXCEPT !.pushed = Append(@, obj)]
                /\ nextId' = NextIdAfter(1)
    /\ UNCHANGED <<tkind, box, raws, it, held>>

\* A faulty into_mboxed_slice whose box covers the whole capacity.
into_mboxed_slice_whole_capacity(b) == from_raw_parts(b.ptr, b.cap)

\* MSliceBuilder::into_mboxed_slice: the box of the prefix; the builder is forgotten.
into_mboxed_slice(b) == as_mboxed_slice(b)

\* The end of from_slice and of from_iter: builder.into_mboxed_slice()
Finalize ==
    /\ status = "running" /\ Building
    /\ bld.st = "slice" => bld.len = Len(bld.src)
    /\ box' = [box EXCEPT ![bld.dst] = into_mboxed_slice(bld)]
    /\ bld' = [NoBuilder EXCEPT !.st = "done"]
    /\ last' = [op |-> "into_mboxed_slice", out |-> "ok", ptr |-> DANGLING]
    /\ UNCHANGED <<tkind, heap, cnt, drops, ub, nextId, raws, it, held, status>>

\* A faulty unwrap_or that takes the default even when the option holds a value.
unwrap_or_ignoring_some(opt, default) == default

\* The builder of a finished build is gone (forgotten by into_mboxed_slice or
\* dropped by the unwinding): the next from_slice or from_iter makes its own.
BuilderEnd ==
    /\ status = "running" /\ bld.st \in {"done", "dropped"}
    /\ bld' = NoBuilder
    /\ last' = [op |-> "builder_end", out |-> "ok", ptr |-> DANGLING]
    /\ UNCHANGED <<tkind, heap, cnt, drops, ub, nextId, box, raws, it, held, status>>

\* Option<usize>::unwrap_or; NULL stands for None
unwrap_or(opt, default) == IF opt = NULL THEN default ELSE opt

max(a, b) == IF a >= b THEN a ELSE b

\* impl FromIterator for MBox<[T]>::from_iter, up to the loop
FromIterBegin(lower_size, upper_size, dst, res) ==
    /\ Idle /\ bld.st = "idle" /\ FirstFree(dst)
    /\ LET initial_capacity == max(unwrap_or(upper_size, lower_size), 1)
           w == with_capacity(M, initial_capacity, res)
       IN /\ SetM(w.m)
          /\ status' = IF w.out = "abort" THEN "aborted" ELSE status
          /\ last' = [op |-> "from_iter", out |-> w.out, ptr |-> DANGLING,
                      lower |-> lower_size, upper |-> upper_size]
          /\ bld' = IF w.out = "ok" THEN StartBuild("iter", w, <<>>, dst) ELSE bld
    /\ UNCHANGED <<tkind, nextId, box, raws, it, held>>

\* let mut builder = MSliceBuilder::with_capacity(cap): the builder used on its
\* own; its pushes are those of FromIterStep, its end Finalize or its drop.
WithCapacity(cap, dst, res) ==
    /\ Idle /\ bld.st = "idle" /\ FirstFree(dst)
    /\ LET w == with_capacity(M, cap, res) IN
       /\ Outcome(w.m, "with_capacity", w.out)
       /\ bld' = IF w.out = "ok" THEN StartBuild("iter", w, <<>>, dst) ELSE bld
    /\ UNCHANGED <<tkind, nextId, box, raws, it, held>>

\* One turn of the loop of from_iter: the iterator produces a value, which is pushed.
FromIterStep(v, res) ==
    /\ status = "running" /\ bld.st = "iter" /\ bld.len < MaxLen
    /\ CanMake(1)
    /\ LET obj == MkCell(v, 0)
           r == push(Made(M, 1), bld, obj, res)
       IN  /\ r.out # "panic"
           /\ Outcome(r.m, "push", r.out)
           /\ bld' = IF r.out = "ok" THEN [r.b EXCEPT !.pushed = Append(@, obj)] ELSE r.b
    /\ nextId' = NextIdAfter(1)
    /\ UNCHANGED <<tkind, box, raws, it, held>>

\* The producing iterator panics: unwinding drops the builder.
FromIterPanic ==
    /\ status = "running" /\ bld.st = "iter"
    /\ Outcome(builder_drop(M, bld), "from_iter", "panic")
    /\ bld' = [bld EXCEPT !.st = "dropped"]
    /\ UNCHANGED <<tkind, nextId, box, raws, it, held>>

\* impl Default for MBox<[T]>: from_raw_parts(gen_malloc(0), 0)
DefaultSeq(b) ==
    /\ Idle /\ FirstFree(b)
    /\ LET r == gen_malloc(M, 0, NULL) IN
       /\ Outcome(r.m, "default", r.out)
       /\ box' = [box EXCEPT ![b] = from_raw_parts(r.ptr, 0)]
    /\ UNCHANGED <<tkind, nextId, raws, bld, it, held>>

\* The caller obtains memory from the C heap itself, initialises the values s in
\* it and wraps it: MBox::from_raw_parts(ptr, len).
ForeignSeq(b, s, ptr) ==
    /\ Idle /\ FirstFree(b) /\ CanMake(Len(s))
    /\ ptr # NULL
    /\ ptr = DANGLING => SizeOfT = 0
    /\ LET cells == IF SizeOfT = 0 THEN <<>>
                    ELSE [i \in 1..max(Len(s), 1) |->
                             IF i <= Len(s) THEN MkCell(s[i], i - 1) ELSE Uninit]
           m1 == IF ptr = DANGLING THEN M
                 ELSE [M EXCEPT !.heap[ptr] = [st |-> "live", cells |-> cells, frees |-> 0]]
       IN Outcome(Made(m1, Len(s)), "from_raw_parts", "ok")
    /\ box' = [box EXCEPT ![b] = from_raw_parts(ptr, Len(s))]
    /\ nextId' = NextIdAfter(Len(s))
    /\ UNCHANGED <<tkind, raws, bld, it, held>>

ValSeqs == UNION {[1..n -> Vals] : n \in 0..MaxLen}

\* ----------------------------------------------------- MSliceIntoIter
\* impl IntoIterator for MBox<[T]>::into_iter: the box is forgotten.
IntoIter(b) ==
    /\ Idle /\ box[b].st = "live" /\ box[b].kind = "seq" /\ it.st = "none"
    /\ LET ptr == box[b].ptr
           len == box[b].len
       IN /\ it' = [st |-> "live", ptr |-> ptr, begin |-> 0, end |-> len, n |-> len]
          /\ last' = [op |-> "into_iter", out |-> "ok", ptr |-> DANGLING]
    /\ box' = [box EXCEPT ![b] = NoBox]
    /\ UNCHANGED <<tkind, heap, cnt, drops, ub, nextId, raws, bld, held, status>>

\* A faulty next that yields without testing begin against end.
next_without_test ==
    /\ Idle /\ it.st = "live"
    /\ it' = [it EXCEPT !.begin = @ + 1]
    /\ held' = Append(held, read(M, it.ptr, it.begin))
    /\ last' = [op |-> "next", out |-> "some", ptr |-> DANGLING]
    /\ UNCHANGED <<tkind, heap, cnt, drops, ub, nextId, box, raws, bld, status>>

\* MSliceIntoIter::next
IterNext ==
    /\ Idle /\ it.st = "live"
    /\ IF it.begin = it.end
       THEN /\ last' = [op |-> "next", out |-> "none", ptr |-> DANGLING]
            /\ UNCHANGED <<it, held>>
       ELSE /\ it' = [it EXCEPT !.begin = @ + 1]
            /\ held' = Append(held, read(M, it.ptr, it.begin))
            /\ last' = [op |-> "next", out |-> "some", ptr |-> DANGLING]
    /\ UNCHANGED <<tkind, heap, cnt, drops, ub, nextId, box, raws, bld, status>>

\* MSliceIntoIter::size_hint: (len, Some(len)) with len = end - begin in usize
size_hint(i) ==
    LET len == (i.end - i.begin + UsizeMax + 1) % (UsizeMax + 1) IN <<len, len>>

\* A faulty next_back that reads the slot at end before stepping back.
next_back_reading_end ==
    /\ Idle /\ it.st = "live"
    /\ IF it.begin = it.end
       THEN /\ last' = [op |-> "next_back", out |-> "none", ptr |-> DANGLING]
            /\ UNCHANGED <<it, held>>
       ELSE /\ it' = [it EXCEPT !.end = @ - 1]
            /\ held' = Append(held, read(M, it.ptr, it.end))
            /\ last' = [op |-> "next_back", out |-> "some", ptr |-> DANGLING]
    /\ UNCHANGED <<tkind, heap, cnt, drops, ub, nextId, box, raws, bld, status>>

\* MSliceIntoIter::next_back
IterNextBack ==
    /\ Idle /\ it.st = "live"
    /\ IF it.begin = it.end
       THEN /\ last' = [op |-> "next_back", out |-> "none", ptr |-> DANGLING]
            /\ UNCHANGED <<it, held>>
       ELSE /\ it' = [it EXCEPT !.end = @ - 1]
            /\ held' = Append(held, read(M, it.ptr, it.end - 1))
            /\ last' = [op |-> "next_back", out |-> "some", ptr |-> DANGLING]
    /\ UNCHANGED <<tkind, heap, cnt, drops, ub, nextId, box, raws, bld, status>>

\* A faulty iterator drop that destroys the whole original range again.
iter_drop_whole(m, i) == gen_free(drop_in_place_slice(m, i.ptr, 0, i.n), i.ptr)

\* impl Drop for MSliceIntoIter
iter_drop(m, i) ==
    LET base == i.begin
        len == i.end - i.begin
    IN gen_free(drop_in_place_slice(m, i.ptr, base, len), i.ptr)

IterDrop ==
    /\ Idle /\ it.st = "live"
    /\ Outcome(iter_drop(M, it), "iter_drop", "ok")
    /\ it' = [NoIter EXCEPT !.st = "dropped"]
    /\ UNCHANGED <<tkind, nextId, box, raws, bld, held>>

\* The caller drops the oldest value it holds.
DropHeld ==
    /\ Idle /\ held # <<>>
    /\ Outcome(drop_value(M, Head(held)), "drop_value", "ok")
    /\ held' = Tail(held)
    /\ UNCHANGED <<tkind, nextId, box, raws, bld, it>>

\* ------------------------------------------------------------ MBox<str>
IsCont(b) == b >= 128 /\ b <= 191

\* std::str::from_utf8 on the bytes s from index i on: well-formed UTF-8 only.
RECURSIVE Utf8ValidFrom(_, _)
Utf8ValidFrom(s, i) ==
    IF i > Len(s) THEN TRUE
    ELSE LET b == s[i]
             has(k) == i + k <= Len(s)
             conts(k) == \A j \in 1..k : IsCont(s[i + j])
         IN
         IF b < 128 THEN Utf8ValidFrom(s, i + 1)
         ELSE IF b >= 194 /\ b <= 223
         THEN has(1) /\ conts(1) /\ Utf8ValidFrom(s, i + 2)
         ELSE IF b = 224
         THEN has(2) /\ s[i + 1] >= 160 /\ conts(2) /\ Utf8ValidFrom(s, i + 3)
         ELSE IF (b >= 225 /\ b <= 236) \/ b = 238 \/ b = 239
         THEN has(2) /\ conts(2) /\ Utf8ValidFrom(s, i + 3)
         ELSE IF b = 237
         THEN has(2) /\ s[i + 1] <= 159 /\ conts(2) /\ Utf8ValidFrom(s, i + 3)
         ELSE IF b = 240
         THEN has(3) /\ s[i + 1] >= 144 /\ conts(3) /\ Utf8ValidFrom(s, i + 4)
         ELSE IF b >= 241 /\ b <= 243
         THEN has(3) /\ conts(3) /\ Utf8ValidFrom(s, i + 4)
         ELSE IF b = 244
         THEN has(3) /\ s[i + 1] <= 143 /\ conts(3) /\ Utf8ValidFrom(s, i + 4)
         ELSE FALSE

Utf8Valid(s) == Utf8ValidFrom(s, 1)

\* The bytes a sequence or text box of u8 denotes.
BytesOf(m, bx) == [i \in 1..bx.len |-> read(m, bx.ptr, i - 1).val]

\* The values a &str can have.
ValidStrs == {s \in ByteSeqs : Utf8Valid(s)}

\* MBox::<str>::from_raw_utf8_parts_unchecked(value, len)
from_raw_utf8_parts_unchecked(value, len) == from_raw("str", value, len)

\* MBox::<str>::from_raw_utf8_parts(value, len): Err when from_utf8(bytes) fails.
from_raw_utf8_parts(m, value, len) ==
    LET bytes == BytesOf(m, from_raw_parts(value, len)) IN
    IF Utf8Valid(bytes)
    THEN [out |-> "ok", bx |-> from_raw("str", value, len)]
    ELSE [out |-> "err", bx |-> NoBox]

\* A faulty into_bytes that loses the last byte.
into_bytes_short(self) == from_raw("seq", self.ptr, IF self.len > 0 THEN self.len - 1 ELSE 0)

\* MBox::<str>::into_bytes(self): from_raw(self.into_raw() as *mut [u8])
into_bytes(self) == from_raw("seq", self.ptr, self.len)

\* MBox::<str>::from_utf8_unchecked(bytes): from_raw(bytes.into_raw() as *mut str)
from_utf8_unchecked(bytes) == from_raw("str", bytes.ptr, bytes.len)

\* MBox::<str>::from_utf8(bytes): the box is forgotten, then its parts are checked.
from_utf8(m, bytes) ==
    LET len == bytes.len
        ptr == bytes.ptr
    IN from_raw_utf8_parts(m, ptr, len)

\* copy_nonoverlapping(src, dst, len) of the bytes s into the block at dst
copy_nonoverlapping(m, s, dst) ==
    IF Len(s) = 0 THEN m
    ELSE IF IsLive(m, dst) /\ Len(s) <= Len(m.heap[dst].cells)
    THEN [m EXCEPT !.heap[dst].cells =
              [i \in 1..Len(@) |-> IF i <= Len(s) THEN [id |-> NoDropId, val |-> s[i]]
                                   ELSE @[i]]]
    ELSE [m EXCEPT !.ub = @ \cup {"write outside a live allocation"}]

\* MBox::<str>::from_str(string)
from_str(m, string, res) ==
    LET len == Len(string)
        r == gen_malloc(m, len, res)
    IN  IF r.out = "ok"
        THEN [m |-> copy_nonoverlapping(r.m, string, r.ptr), out |-> "ok",
              bx |-> from_raw_utf8_parts_unchecked(r.ptr, len)]
        ELSE [m |-> r.m, out |-> r.out, bx |-> NoBox]

FromStr(s, b, res) ==
    /\ Idle /\ tkind = "u8" /\ FirstFree(b) /\ s \in ValidStrs
    /\ LET r == from_str(M, s, res) IN
       /\ Outcome(r.m, "from_str", r.out)
       /\ box' = IF r.out = "ok" THEN [box EXCEPT ![b] = r.bx] ELSE box
    /\ UNCHANGED <<tkind, nextId, raws, bld, it, held>>

\* impl Clone for MBox<str>::clone: Self::from_str(self)
CloneStr(b, b2, res) ==
    /\ Idle /\ box[b].st = "live" /\ box[b].kind = "str" /\ FirstFree(b2)
    /\ LET r == from_str(M, BytesOf(M, box[b]), res) IN
       /\ Outcome(r.m, "clone", r.out)
       /\ box' = IF r.out = "ok" THEN [box EXCEPT ![b2] = r.bx] ELSE box
    /\ UNCHANGED <<tkind, nextId, raws, bld, it, held>>

\* impl Default for MBox<str>: from_raw_utf8_parts_unchecked(gen_malloc(0), 0)
DefaultStr(b) ==
    /\ Idle /\ tkind = "u8" /\ FirstFree(b)
    /\ LET r == gen_malloc(M, 0, NULL) IN
       /\ Outcome(r.m, "default_str", r.out)
       /\ box' = [box EXCEPT ![b] = from_raw_utf8_parts_unchecked(r.ptr, 0)]
    /\ UNCHANGED <<tkind, nextId, raws, bld, it, held>>

IntoBytes(b) ==
    /\ Idle /\ box[b].st = "live" /\ box[b].kind = "str"
    /\ box' = [box EXCEPT ![b] = into_bytes(box[b])]
    /\ last' = [op |-> "into_bytes", out |-> "ok", ptr |-> DANGLING]
    /\ UNCHANGED <<tkind, heap, cnt, drops, ub, nextId, raws, bld, it, held, status>>

\* The caller vouches for the bytes being valid UTF-8.
FromUtf8Unchecked(b) ==
    /\ Idle /\ tkind = "u8" /\ box[b].st = "live" /\ box[b].kind = "seq"
    /\ Utf8Valid(BytesOf(M, box[b]))
    /\ box' = [box EXCEPT ![b] = from_utf8_unchecked(box[b])]
    /\ last' = [op |-> "from_utf8_unchecked", out |-> "ok", ptr |-> DANGLING]
    /\ UNCHANGED <<tkind, heap, cnt, drops, ub, nextId, raws, bld, it, held, status>>

\* let r = MBox::from_utf8(b): b is moved into the call; on Ok the text box takes
\* the variable's place, on Err only the Utf8Error comes back.
FromUtf8(b) ==
    /\ Idle /\ tkind = "u8" /\ box[b].st = "live" /\ box[b].kind = "seq"
    /\ LET r == from_utf8(M, box[b]) IN
       /\ box' = [box EXCEPT ![b] = r.bx]
       /\ last' = [op |-> "from_utf8", out |-> r.out, ptr |-> box[b].ptr]
    /\ UNCHANGED <<tkind, heap, cnt, drops, ub, nextId, raws, bld, it, held, status>>

\* The UTF-8 bytes of "hello": 68 65 6c 6c 6f.
HelloBytes == <<104, 101, 108, 108, 111>>

\* One turn of the loop of from_iter over an iterator that yields the bytes of
\* "hello" one at a time: builder.push(item).
PushHello(res) ==
    /\ status = "running" /\ bld.st = "iter" /\ tkind = "u8"
    /\ bld.len < Len(HelloBytes)
    /\ LET obj == [id |-> NoDropId, val |-> HelloBytes[bld.len + 1]]
           r == push(M, bld, obj, res)
       IN  /\ r.out # "panic"
           /\ Outcome(r.m, "push", r.out)
           /\ bld' = IF r.out = "ok" THEN [r.b EXCEPT !.pushed = Append(@, obj)] ELSE r.b
    /\ UNCHANGED <<tkind, nextId, box, raws, it, held>>

\* ------------------------------------- the primitives, called directly
\* A handle to raw memory, as gen_malloc returns it.
MemHandle(ptr) == [kind |-> "mem", ptr |-> ptr, len |-> 0]

\* The counts the primitives are called with: 0, 1, 2 and one whose size in bytes
\* of a sized T with a destructor does not fit usize.
Counts == {0, 1, 2, UsizeMax \div 8 + 1}

\* The caller may call a primitive once more.
CanCall == cnt.malloc + cnt.realloc + cnt.gen_free < MaxCalls

\* let h = gen_malloc::<T>(count)
GenMalloc(count, res) ==
    /\ Idle /\ CanCall /\ Len(raws) < Cardinality(Boxes)
    /\ LET r == gen_malloc(M, count, res) IN
       /\ SetM(r.m)
       /\ status' = IF r.out = "abort" THEN "aborted" ELSE status
       /\ raws' = IF r.out = "ok" THEN Append(raws, MemHandle(r.ptr)) ELSE raws
       /\ last' = [op |-> "gen_malloc", out |-> r.out, ptr |-> r.ptr,
                   old |-> NULL, count |-> count]
    /\ UNCHANGED <<tkind, nextId, box, bld, it, held>>

\* gen_free(h)
GenFree(i) ==
    /\ Idle /\ CanCall /\ i \in 1..Len(raws) /\ raws[i].kind = "mem"
    /\ SetM(gen_free(M, raws[i].ptr))
    /\ raws' = RemoveAt(raws, i)
    /\ last' = [op |-> "gen_free", out |-> "ok", ptr |-> DANGLING,
                old |-> raws[i].ptr, count |-> 0]
    /\ UNCHANGED <<tkind, nextId, box, bld, it, held, status>>

\* let h = gen_realloc(h, new_count)
GenRealloc(i, new_count, res) ==
    /\ Idle /\ CanCall /\ i \in 1..Len(raws) /\ raws[i].kind = "mem"
    /\ LET r == gen_realloc(M, raws[i].ptr, new_count, res) IN
       /\ SetM(r.m)
       /\ status' = IF r.out = "abort" THEN "aborted" ELSE status
       /\ raws' = IF r.out = "ok" THEN [raws EXCEPT ![i].ptr = r.ptr] ELSE raws
       /\ last' = [op |-> "gen_realloc", out |-> r.out, ptr |-> r.ptr,
                   old |-> raws[i].ptr, count |-> new_count]
    /\ UNCHANGED <<tkind, nextId, box, bld, it, held>>

\* What the C allocator may answer to a gen_realloc of the handle ptr.
GenReallocAnswers(m, ptr) ==
    IF ptr = DANGLING THEN MallocAnswers(m) ELSE ReallocAnswers(m, ptr)

\* -------------------------------------------------------- specifications
InitOf(kinds) ==
    /\ tkind \in kinds
    /\ heap = [b \in Blocks |-> [st |-> "unalloc", cells |-> <<>>, frees |-> 0]]
    /\ cnt = [malloc |-> 0, realloc |-> 0, free |-> 0, gen_free |-> 0, made |-> 0]
    /\ drops = [i \in 0..MaxId |-> 0]
    /\ ub = {}
    /\ nextId = 1
    /\ box = [b \in Boxes |-> NoBox]
    /\ raws = <<>>
    /\ bld = NoBuilder
    /\ it = NoIter
    /\ held = <<>>
    /\ status = "running"
    /\ last = [op |-> "init", out |-> "ok", ptr |-> DANGLING]

Init == InitOf(TKinds)

\* Single values and raw handles.
BoxNext ==
    \/ \E b \in Boxes, v \in Vals, res \in MallocAnswers(M) : New(b, v, res)
    \/ \E b \in Boxes, v \in Vals, p \in {DANGLING, Fresh(M)} : ForeignNew(b, v, p)
    \/ \E b, b2 \in Boxes : Move(b, b2)
    \/ \E b \in Boxes : IntoRaw(b)
    \/ \E i \in Boxes, b \in Boxes : FromRaw(i, b)
    \/ \E i \in Boxes : RawFree(i)
    \/ \E b \in Boxes : DropBox(b)
    \/ \E b, b2 \in Boxes, p \in ClonePanics, res \in MallocAnswers(M) : CloneVal(b, b2, p, res)
    \/ \E b, b2 \in Boxes, p \in ClonePanics : CloneFrom(b, b2, p)

Spec == Init /\ [][BoxNext]_vars

\* Building sequences: from_raw_parts, default, from_slice (clone), from_iter.
BuildNext ==
    \/ \E b \in Boxes, s \in ValSeqs, p \in {DANGLING, Fresh(M)} : ForeignSeq(b, s, p)
    \/ \E b \in Boxes : DefaultSeq(b)
    \/ \E b, dst \in Boxes, res \in MallocAnswers(M) : CloneSeq(b, dst, res)
    \/ \E p \in ClonePanics, res \in PushAnswers(M, bld) : FromSliceStep(p, res)
    \/ \E lo \in 0..MaxLen, up \in {NULL} \cup 0..MaxLen, dst \in Boxes,
          res \in MallocAnswers(M) : FromIterBegin(lo, up, dst, res)
    \/ \E v \in Vals, res \in PushAnswers(M, bld) : FromIterStep(v, res)
    \/ FromIterPanic
    \/ Finalize
    \/ \E b \in Boxes : DropBox(b)

SpecBuild == InitOf({"zst", "dc"}) /\ [][BuildNext]_vars

\* Single values made, cloned into one another and dropped.
CloneFromNext ==
    \/ \E b \in Boxes, v \in Vals, res \in MallocAnswers(M) : New(b, v, res)
    \/ \E b, b2 \in Boxes, p \in ClonePanics : CloneFrom(b, b2, p)
    \/ \E b \in Boxes : DropBox(b)

SpecCloneFrom == Init /\ [][CloneFromNext]_vars

\* Single values of a type whose destructor may panic.
DropPanicNext ==
    \/ \E b \in Boxes, v \in Vals, res \in MallocAnswers(M) : New(b, v, res)
    \/ \E b, b2 \in Boxes, p \in ClonePanics : CloneFrom(b, b2, p)
    \/ \E b, b2 \in Boxes, q \in BOOLEAN : CloneFromDropPanic(b, b2, q)
    \/ \E b \in Boxes : DropBox(b)

SpecDropPanic == InitOf({"dc"}) /\ [][DropPanicNext]_vars

\* Sequences, empty ones among them, collected from an iterator or wrapped around
\* memory of the caller, then dropped or iterated.
EmptySeqNext ==
    \/ \E s \in ValSeqs, p \in {DANGLING, Fresh(M)} : it.st = "none" /\ ForeignSeq(1, s, p)
    \/ \E lo \in {0, 1}, res \in MallocAnswers(M) :
          it.st = "none" /\ FromIterBegin(lo, NULL, 1, res)
    \/ \E v \in Vals, res \in PushAnswers(M, bld) : FromIterStep(v, res)
    \/ Finalize
    \/ IntoIter(1)
    \/ IterNext
    \/ IterDrop
    \/ DropHeld
    \/ DropBox(1)

SpecEmptySeq == InitOf({"zst", "dc"}) /\ [][EmptySeqNext]_vars

\* Sequences of a zero-size T: collected, cloned, iterated and dropped.
ZstNext ==
    \/ \E lo \in {0, 1}, dst \in Boxes, res \in MallocAnswers(M) :
          FromIterBegin(lo, NULL, dst, res)
    \/ \E v \in Vals, res \in PushAnswers(M, bld) : FromIterStep(v, res)
    \/ Finalize
    \/ BuilderEnd
    \/ \E b, dst \in Boxes, res \in MallocAnswers(M) : CloneSeq(b, dst, res)
    \/ \E res \in PushAnswers(M, bld) : FromSliceStep(FALSE, res)
    \/ \E b \in Boxes : IntoIter(b)
    \/ IterNext
    \/ IterNextBack
    \/ IterDrop
    \/ DropHeld
    \/ \E b \in Boxes : DropBox(b)

SpecZst == InitOf({"zst"}) /\ [][ZstNext]_vars

\* The builder on its own, started at any capacity.
BuilderNext ==
    \/ \E cap \in 0..MaxLen, res \in MallocAnswers(M) : WithCapacity(cap, 1, res)
    \/ \E v \in Vals, res \in PushAnswers(M, bld) : FromIterStep(v, res)
    \/ FromIterPanic
    \/ Finalize
    \/ DropBox(1)

SpecBuilder == InitOf({"zst", "dc"}) /\ [][BuilderNext]_vars

\* Consuming iteration over a sequence box; the boxes are made before the iterator.
IterateNext ==
    \/ \E b \in Boxes, s \in ValSeqs, p \in {DANGLING, Fresh(M)} :
          it.st = "none" /\ ForeignSeq(b, s, p)
    \/ \E b \in Boxes : it.st = "none" /\ DefaultSeq(b)
    \/ \E b \in Boxes : IntoIter(b)
    \/ IterNext
    \/ IterNextBack
    \/ IterDrop
    \/ DropHeld
    \/ \E b \in Boxes : DropBox(b)

SpecIter == InitOf({"zst", "dc"}) /\ [][IterateNext]_vars

\* Cloning single values and sequences, and changing them afterwards.
CloneNext ==
    \/ \E b \in Boxes, v \in Vals, res \in MallocAnswers(M) : New(b, v, res)
    \/ \E b \in Boxes, s \in ValSeqs, p \in {DANGLING, Fresh(M)} : ForeignSeq(b, s, p)
    \/ \E b \in Boxes : DefaultSeq(b)
    \/ \E b, b2 \in Boxes, p \in ClonePanics, res \in MallocAnswers(M) : CloneVal(b, b2, p, res)
    \/ \E b, dst \in Boxes, res \in MallocAnswers(M) : CloneSeq(b, dst, res)
    \/ \E p \in ClonePanics, res \in PushAnswers(M, bld) : FromSliceStep(p, res)
    \/ Finalize
    \/ \E b \in Boxes, i \in 0..(MaxLen - 1), v \in Vals : Mutate(b, i, v)
    \/ \E b \in Boxes : DropBox(b)

SpecClone == InitOf({"zst", "dc"}) /\ [][CloneNext]_vars

\* The byte strings the constructors are given here: "" and "h".
ShortBytes == {<<>>, <<104>>}

\* Every safe constructor, and what an empty box can then do.
CtorNext ==
    \/ \E b \in Boxes, v \in Vals, res \in MallocAnswers(M) : New(b, v, res)
    \/ \E b \in Boxes : DefaultSeq(b)
    \/ \E b, dst \in Boxes, res \in MallocAnswers(M) : CloneSeq(b, dst, res)
    \/ \E s \in ShortBytes, dst \in Boxes, res \in MallocAnswers(M) : FromSlice(s, dst, res)
    \/ \E res \in PushAnswers(M, bld) : FromSliceStep(FALSE, res)
    \/ \E lo \in 0..MaxLen, up \in {NULL, 0}, dst \in Boxes,
          res \in MallocAnswers(M) : FromIterBegin(lo, up, dst, res)
    \/ \E v \in Vals, res \in PushAnswers(M, bld) : FromIterStep(v, res)
    \/ Finalize
    \/ \E s \in ShortBytes, b \in Boxes, res \in MallocAnswers(M) : FromStr(s, b, res)
    \/ \E b \in Boxes : DefaultStr(b)
    \/ \E b \in Boxes : IntoIter(b)
    \/ IterNext
    \/ \E b \in Boxes : DropBox(b)

SpecCtor == Init /\ [][CtorNext]_vars

\* The allocation primitives on their own.
AllocNext ==
    \/ \E count \in Counts, res \in MallocAnswers(M) : GenMalloc(count, res)
    \/ \E i \in 1..Len(raws) : GenFree(i)
    \/ \E i \in 1..Len(raws), count \in Counts :
          \E res \in GenReallocAnswers(M, raws[i].ptr) : GenRealloc(i, count, res)

SpecAlloc == Init /\ [][AllocNext]_vars

\* No box, builder or iterator has been made so far.
NoBoxYet == (\A b \in Boxes : box[b].st = "none") /\ bld.st = "idle" /\ it.st = "none"

\* Every operation that can meet the sentinel: the primitives, the three Free
\* implementations (through drop), the builder and the consuming iterator.  The
\* caller first uses the primitives directly, then, its handles released, makes
\* one box, which it may clone, iterate and drop.
SentinelNext ==
    \/ \E count \in {0, 1}, res \in MallocAnswers(M) : NoBoxYet /\ GenMalloc(count, res)
    \/ \E i \in 1..Len(raws) : GenFree(i)
    \/ \E i \in 1..Len(raws), count \in {0, 1} :
          \E res \in GenReallocAnswers(M, raws[i].ptr) : GenRealloc(i, count, res)
    \/ \E v \in Vals, res \in MallocAnswers(M) : raws = <<>> /\ New(1, v, res)
    \/ raws = <<>> /\ DefaultSeq(1)
    \/ raws = <<>> /\ DefaultStr(1)
    \/ \E s \in ShortBytes, res \in MallocAnswers(M) : raws = <<>> /\ FromStr(s, 1, res)
    \/ \E res \in MallocAnswers(M) : CloneSeq(1, 2, res)
    \/ \E lo \in {0, 1}, res \in MallocAnswers(M) :
          raws = <<>> /\ FromIterBegin(lo, NULL, 1, res)
    \/ \E v \in Vals, res \in PushAnswers(M, bld) : FromIterStep(v, res)
    \/ FromIterPanic
    \/ Finalize
    \/ \E b \in Boxes : IntoIter(b)
    \/ IterDrop
    \/ \E b \in Boxes : DropBox(b)

SpecSentinel == Init /\ [][SentinelNext]_vars

\* Text and its byte-sequence form.
\* The bytes of "hello" pushed one at a time into a builder of capacity 1 (from_iter
\* over an iterator whose size hint is (0, None) or (1, None)), then made a text.
HelloNext ==
    \/ \E lo \in {0, 1}, res \in MallocAnswers(M) : FromIterBegin(lo, NULL, 1, res)
    \/ \E res \in PushAnswers(M, bld) : PushHello(res)
    \/ FromIterPanic
    \/ Finalize
    \/ FromUtf8(1)
    \/ IntoBytes(1)
    \/ DropBox(1)

SpecHello == InitOf({"u8"}) /\ [][HelloNext]_vars

TextNext ==
    \/ \E s \in ByteSeqs, dst \in Boxes, res \in MallocAnswers(M) : FromSlice(s, dst, res)
    \/ \E res \in PushAnswers(M, bld) : FromSliceStep(FALSE, res)
    \/ Finalize
    \/ \E s \in ByteSeqs, b \in Boxes, res \in MallocAnswers(M) : FromStr(s, b, res)
    \/ \E b \in Boxes : DefaultStr(b)
    \/ \E b, b2 \in Boxes, res \in MallocAnswers(M) : CloneStr(b, b2, res)
    \/ \E b \in Boxes : IntoBytes(b)
    \/ \E b \in Boxes : FromUtf8(b)
    \/ \E b \in Boxes : FromUtf8Unchecked(b)
    \/ \E b \in Boxes : DropBox(b)

SpecText == InitOf({"u8"}) /\ [][TextNext]_vars

\* ============================================================ properties
RECURSIVE SumTo(_, _)
SumTo(f, n) == IF n < 0 THEN 0 ELSE f[n] + SumTo(f, n - 1)

\* Destructor runs so far, over all values.
TotalDrops == SumTo(drops, MaxId)

\* The values a box owns.
BoxVals(bx) == IF bx.st # "live" THEN 0 ELSE IF bx.kind = "val" THEN 1 ELSE bx.len

RECURSIVE RawVals(_)
RawVals(rs) ==
    IF rs = <<>> THEN 0
    ELSE (IF Head(rs).kind = "val" THEN 1 ELSE Head(rs).len) + RawVals(Tail(rs))

\* The values that are alive: owned by a box, a raw handle, the builder, the
\* iterator or the caller.
LiveVals ==
    BoxVals(box[1]) + BoxVals(box[2]) + RawVals(raws)
    + (IF Building THEN bld.len ELSE 0)
    + (IF it.st = "live" THEN it.end - it.begin ELSE 0)
    + Len(held)

\* Every value made is either alive or was destroyed, once.
Conservation ==
    (status = "running" /\ tkind # "u8") => cnt.made = TotalDrops + LiveVals

\* No value is destroyed twice, no block is released twice, nothing undefined happened.
NoDoubleFree ==
    /\ ub = {}
    /\ \A i \in 1..MaxId : drops[i] <= 1
    /\ \A k \in Blocks : heap[k].frees <= 1 /\ (heap[k].frees = 1 <=> heap[k].st = "freed")

\* ---------------------------------------------------------------- C1
C1_State ==
    /\ NoDoubleFree
    /\ Conservation
    /\ \A b \in Boxes : (box[b].st = "dropped" /\ box[b].kind = "val") =>
          /\ box[b].ptr \in Blocks =>
                heap[box[b].ptr].st = "freed" /\ heap[box[b].ptr].frees = 1
          /\ tkind = "dc" =>
                /\ box[b].ptr \in Blocks
                /\ drops[heap[box[b].ptr].cells[1].id] = 1

C1_Step ==
    /\ last'.op = "drop" =>
          /\ cnt'.gen_free = cnt.gen_free + 1
          /\ tkind # "u8" => TotalDrops' = TotalDrops + 1
    /\ last'.op \in {"move", "into_raw", "from_raw"} =>
          /\ cnt'.gen_free = cnt.gen_free /\ cnt'.free = cnt.free
          /\ drops' = drops

\* C1: a box made by new or from_raw and then moved, turned into a raw handle and
\* back any number of times, once dropped, has had its pointee destroyed exactly
\* once and its allocation released exactly once (the drop is one destructor run
\* and one release; moves and conversions are none); values are destroyed only
\* by the drop of a box that was constructed, so an unused variable destroys nothing.
C1_SingleFree == []C1_State /\ [][C1_Step]_vars

\* A box made by new, moved into the second variable, and dropped there.
C1_Witness ==
    /\ tkind = "dc" /\ last.op = "drop"
    /\ box[1].st = "none" /\ box[2].st = "dropped"
    /\ cnt.made = 1 /\ cnt.malloc = 1 /\ cnt.free = 1 /\ drops[1] = 1

\* ---------------------------------------------------------------- C2
\* The live owner of the block at ptr, if any: a box variable or a raw handle.
Owners(ptr) ==
    {b \in Boxes : box[b].st = "live" /\ box[b].ptr = ptr}
    \cup {-i : i \in {j \in 1..Len(raws) : raws[j].ptr = ptr}}

\* C2: when from_utf8 reports a validation error, the bytes it was given are still
\* owned by the caller: a live byte-sequence box holds the same allocation with the
\* same content, so the allocation is neither consumed nor leaked.
C2_BytesKeptOnError ==
    (last.op = "from_utf8" /\ last.out = "err") =>
        /\ IsLive(M, last.ptr)
        /\ \E b \in Boxes : /\ box[b].st = "live" /\ box[b].kind = "seq"
                            /\ box[b].ptr = last.ptr

\* What the code does instead: the error is reported, the allocation stays live
\* and nothing owns it any more.
C2_LeakOnError ==
    (last.op = "from_utf8" /\ last.out = "err") =>
        IsLive(M, last.ptr) /\ Owners(last.ptr) = {}

\* ---------------------------------------------------------------- C3
C3_State ==
    /\ NoDoubleFree
    /\ Conservation
    /\ bld.st = "dropped" =>
          /\ bld.len = Len(bld.pushed)
          /\ tkind = "dc" => \A i \in 1..Len(bld.pushed) : drops[bld.pushed[i].id] = 1
          /\ bld.ptr \in Blocks =>
                heap[bld.ptr].st = "freed" /\ heap[bld.ptr].frees = 1

C3_Step ==
    (Building /\ bld'.st = "dropped") =>
        /\ TotalDrops' = TotalDrops + bld.len
        /\ cnt'.gen_free = cnt.gen_free + 1
        /\ cnt'.free = cnt.free + (IF bld.ptr = DANGLING THEN 0 ELSE 1)
        /\ ub' = {}

\* C3: when a build is abandoned after k pushes (the clone of the next element
\* panics in from_slice, or the producing iterator panics in from_iter), dropping
\* the builder destroys exactly the k pushed elements, each once, touches no slot
\* of [length, capacity), and releases the backing storage exactly once.
C3_BuilderAbortSafe == []C3_State /\ [][C3_Step]_vars

\* from_slice of two elements abandoned after one push into a capacity of two.
C3_Witness ==
    /\ tkind = "dc" /\ bld.st = "dropped" /\ last.out = "panic"
    /\ Len(bld.src) = 2 /\ bld.len = 1 /\ bld.cap = 2
    /\ drops[bld.pushed[1].id] = 1
    /\ heap[bld.ptr].st = "freed"

\* ---------------------------------------------------------------- C4
\* The pointee behind a raw handle is allocated, initialised and not destroyed.
RawIntact(r) ==
    /\ r.ptr # NULL
    /\ SizeOfT # 0 =>
          /\ IsLive(M, r.ptr)
          /\ \A i \in 0..((IF r.kind = "val" THEN 1 ELSE r.len) - 1) :
                LET c == read(M, r.ptr, i) IN
                /\ c.id # UninitId
                /\ tkind = "dc" => drops[c.id] = 0
    /\ r.ptr \in Blocks => IsLive(M, r.ptr)

C4_State == \A i \in 1..Len(raws) : RawIntact(raws[i])

C4_Step ==
    /\ last'.op = "into_raw" =>
          /\ heap' = heap /\ cnt' = cnt /\ drops' = drops /\ ub' = ub
          /\ \E b \in Boxes :
                /\ box[b].st = "live" /\ box'[b].st = "none"
                /\ Len(raws') = Len(raws) + 1
                /\ raws'[Len(raws')].ptr = box[b].ptr
    /\ \A i \in 1..Len(raws) :
          (IsLive(M, raws[i].ptr) /\ heap'[raws[i].ptr].st # "live") =>
              last'.op = "raw_free"

\* C4: into_raw runs no destructor and releases nothing, returns the address the
\* box owned and leaves the variable without a box; as long as the caller holds
\* the handle the pointee stays allocated, initialised and undestroyed, whatever
\* else is dropped, and its block is released only by the caller's own release.
C4_IntoRawDisarms == []C4_State /\ [][C4_Step]_vars

\* A raw handle still intact after another box was dropped.
C4_Witness ==
    /\ tkind = "dc" /\ Len(raws) = 1 /\ last.op = "drop"
    /\ IsLive(M, raws[1].ptr) /\ drops[read(M, raws[1].ptr, 0).id] = 0
    /\ box[1].st = "dropped"

\* ---------------------------------------------------------------- C5
C5_State ==
    /\ NoDoubleFree
    /\ Conservation
    /\ it.st = "live" =>
          /\ 0 <= it.begin /\ it.begin <= it.end /\ it.end <= it.n
          /\ it.ptr \in Blocks => IsLive(M, it.ptr)
          /\ tkind = "dc" =>
                \A i \in it.begin..(it.end - 1) :
                    LET c == read(M, it.ptr, i) IN c.id > 0 /\ drops[c.id] = 0

C5_Step ==
    /\ last'.op = "into_iter" =>
          /\ heap' = heap /\ cnt' = cnt /\ drops' = drops
          /\ \E b \in Boxes :
                /\ box[b].st = "live" /\ box'[b].st = "none"
                /\ it'.ptr = box[b].ptr /\ it'.begin = 0 /\ it'.end = box[b].len
    /\ last'.op \in {"next", "next_back"} =>
          /\ heap' = heap /\ cnt' = cnt /\ drops' = drops
          /\ Len(held') = Len(held) + (IF last'.out = "some" THEN 1 ELSE 0)
          /\ (it.end - it.begin) = (it'.end - it'.begin)
                                   + (IF last'.out = "some" THEN 1 ELSE 0)
    /\ last'.op = "iter_drop" =>
          /\ TotalDrops' = TotalDrops + (it.end - it.begin)
          /\ tkind = "dc" =>
                \A i \in it.begin..(it.end - 1) : drops'[read(M, it.ptr, i).id] = 1
          /\ cnt'.gen_free = cnt.gen_free + 1
          /\ cnt'.free = cnt.free + (IF it.ptr = DANGLING THEN 0 ELSE 1)
          /\ it.ptr \in Blocks =>
                heap'[it.ptr].st = "freed" /\ heap'[it.ptr].frees = 1
          /\ ub' = {}

\* C5: turning a sequence box into a consuming iterator releases and destroys
\* nothing; next and next_back hand one element each to the caller and destroy
\* nothing; dropping the iterator destroys exactly the elements of [begin, end) not
\* yet yielded and releases the storage once; so each of the n elements is
\* destroyed exactly once, by the caller if yielded, by the iterator otherwise.
C5_IterDrop == []C5_State /\ [][C5_Step]_vars

\* An iterator over two elements dropped after yielding one, which the caller holds.
C5_Witness ==
    /\ tkind = "dc" /\ last.op = "iter_drop" /\ it.st = "dropped"
    /\ Len(held) = 1 /\ cnt.made = 2 /\ TotalDrops = 1 /\ drops[held[1].id] = 0
    /\ cnt.free = 1

\* ---------------------------------------------------------------- C6
\* A box of a zero-sized value, or a sequence or text of length 0.
Empty(bx) == IF bx.kind = "val" THEN SizeOfT = 0 ELSE bx.len = 0

\* Calls to the real allocator so far.
AllocCalls(c) == <<c.malloc, c.realloc, c.free>>

\* Everything constructed so far is a box of a zero-sized value or of length 0.
OnlyEmpties ==
    /\ status = "running" /\ ~Building
    /\ \A b \in Boxes : box[b].st # "none" => Empty(box[b])
    /\ it.st # "none" => it.n = 0

\* C6 as stated: constructing boxes of zero-sized values and sequences of length 0,
\* by any constructor (collecting an empty iterator included), never calls the real
\* allocator; the boxes have non-null addresses and their iterators are exhausted.
C6_NoAllocatorForEmpty ==
    OnlyEmpties =>
        /\ AllocCalls(cnt) = <<0, 0, 0>>
        /\ \A b \in Boxes : box[b].ptr # NULL
        /\ last.op = "next" => last.out = "none"

\* The empty boxes that hold a real block, and those of them already dropped.
EmptyWithBlock(sts) ==
    {b \in Boxes : box[b].st \in sts /\ Empty(box[b]) /\ box[b].ptr \in Blocks}

C6_State ==
    /\ NoDoubleFree
    /\ \A b \in Boxes : (box[b].st # "none" /\ Empty(box[b])) =>
          /\ box[b].ptr # NULL
          /\ box[b].ptr # DANGLING =>
                /\ SizeOfT # 0 /\ box[b].kind = "seq"
                /\ heap[box[b].ptr].st = (IF box[b].st = "live" THEN "live" ELSE "freed")
                /\ Len(heap[box[b].ptr].cells) >= 1
    /\ (it.st = "live" /\ it.n = 0) => it.begin = it.end /\ it.ptr # NULL
    /\ (last.op = "next" /\ it.n = 0) => last.out = "none"
    /\ OnlyEmpties =>
          /\ cnt.realloc = 0
          /\ cnt.malloc = Cardinality(EmptyWithBlock({"live", "dropped"}))
                          + (IF it.st = "live" /\ it.ptr \in Blocks THEN 1 ELSE 0)
          /\ cnt.free = Cardinality(EmptyWithBlock({"dropped"}))

C6_Step ==
    /\ last'.op \in {"default", "default_str", "into_mboxed_slice"} =>
          heap' = heap /\ AllocCalls(cnt') = AllocCalls(cnt)
    /\ (last'.op = "new" /\ SizeOfT = 0) =>
          heap' = heap /\ AllocCalls(cnt') = AllocCalls(cnt)
    /\ (last'.op \in {"clone", "from_slice"} /\ bld.st = "idle"
           /\ bld'.st = "slice" /\ Len(bld'.src) = 0) =>
          heap' = heap /\ AllocCalls(cnt') = AllocCalls(cnt) /\ bld'.ptr = DANGLING
    /\ (last'.op = "from_str"
           /\ \E b \in Boxes : box[b].st = "none" /\ box'[b].st = "live" /\ box'[b].len = 0) =>
          heap' = heap /\ AllocCalls(cnt') = AllocCalls(cnt)
    /\ (last'.op = "from_iter" /\ SizeOfT = 0) =>
          heap' = heap /\ AllocCalls(cnt') = AllocCalls(cnt)
    /\ (last'.op = "from_iter" /\ SizeOfT # 0 /\ last'.out = "ok" /\ bld.st = "idle") =>
          /\ cnt'.malloc = cnt.malloc + 1
          /\ bld'.ptr \in Blocks /\ bld'.cap >= 1
    /\ last'.op = "drop" =>
          \A b \in Boxes : (box[b].st = "live" /\ box'[b].st = "dropped" /\ Empty(box[b])) =>
              /\ cnt'.gen_free = cnt.gen_free + 1
              /\ cnt'.free = cnt.free + (IF box[b].ptr = DANGLING THEN 0 ELSE 1)

\* C6 (amended): new of a zero-sized value, default, from_slice of an empty slice,
\* text default, from_str of "" and collecting an iterator of zero-sized elements
\* never call the real allocator and yield the sentinel; collecting an empty
\* iterator of sized elements allocates one block of capacity >= 1, which the empty
\* box owns and releases exactly once when dropped.  Every such box has a non-null
\* address and its iterator signals exhaustion at the first next.
C6_EmptyConstructors == []C6_State /\ [][C6_Step]_vars

\* A default box on the sentinel next to the exhausted iterator of a box collected
\* from an empty iterator, which holds a real block.
C6_Witness ==
    /\ tkind = "dc" /\ OnlyEmpties
    /\ box[1].st = "live" /\ box[1].len = 0 /\ box[1].ptr = DANGLING
    /\ it.st = "live" /\ it.n = 0 /\ it.ptr \in Blocks
    /\ last.op = "next" /\ last.out = "none"
    /\ cnt.malloc = 1

\* ---------------------------------------------------------------- C7
\* The payloads of a sequence of values.
Payloads(cs) == [i \in 1..Len(cs) |-> cs[i].val]

C7_State ==
    /\ ub = {}
    /\ (Building /\ status = "running") =>
          /\ bld.len = Len(bld.pushed)
          /\ Slice(M, as_mboxed_slice(bld)) = bld.pushed
          /\ bld.cap0 >= 1 => bld.len <= bld.cap
          /\ SizeOfT # 0 =>
                IF bld.cap = 0 THEN bld.ptr = DANGLING
                ELSE IsLive(M, bld.ptr) /\ Len(heap[bld.ptr].cells) = bld.cap
          /\ bld.st = "slice" =>
                Payloads(bld.pushed) = Payloads(SubSeq(bld.src, 1, bld.len))

C7_Step ==
    /\ last'.op = "into_mboxed_slice" =>
          /\ box'[bld.dst].st = "live" /\ box'[bld.dst].len = Len(bld.pushed)
          /\ Slice([M EXCEPT !.heap = heap'], box'[bld.dst]) = bld.pushed
          /\ bld.st = "slice" => Payloads(bld.pushed) = Payloads(bld.src)
    /\ (last'.op = "push" /\ last'.out = "ok") =>
          /\ bld'.pushed = Append(bld.pushed, bld'.pushed[Len(bld'.pushed)])
          /\ bld'.len = bld.len + 1
          /\ bld'.cap = (IF bld.len >= bld.cap THEN 2 * bld.cap ELSE bld.cap)

\* C7: after every push the builder's storage holds exactly the values pushed so
\* far, in push order, whether the push reallocated in place, moved the storage or
\* did not grow; finalising yields a sequence box of length n whose element i is
\* the i-th pushed value, for a builder started at any capacity c >= 1.
C7_Growth == []C7_State /\ [][C7_Step]_vars

\* Two different values pushed into a builder started at capacity 1, whose storage
\* moved when it grew, then finalised.
C7_Witness ==
    /\ tkind = "dc" /\ last.op = "into_mboxed_slice"
    /\ cnt.malloc = 1 /\ cnt.realloc = 1 /\ heap[1].st = "moved"
    /\ box[1].st = "live" /\ box[1].len = 2 /\ box[1].ptr = 2
    /\ read(M, 2, 0).val = 0 /\ read(M, 2, 1).val = 1

\* ---------------------------------------------------------------- C8
C8_State ==
    /\ NoDoubleFree
    /\ \A b \in Boxes : (box[b].st = "live" /\ box[b].kind = "str") =>
          LET bytes == into_bytes(box[b])
              r == from_utf8(M, bytes)
          IN  /\ Utf8Valid(BytesOf(M, box[b]))
              /\ bytes.kind = "seq"
              /\ bytes.ptr = box[b].ptr /\ bytes.len = box[b].len
              /\ BytesOf(M, bytes) = BytesOf(M, box[b])
              /\ r.out = "ok"
              /\ r.bx = box[b]
    /\ \A b \in Boxes : (box[b].st = "dropped" /\ box[b].ptr \in Blocks) =>
          heap[box[b].ptr].st = "freed" /\ heap[box[b].ptr].frees = 1
    /\ \A b \in Boxes : (box[b].st = "live" /\ box[b].ptr \in Blocks) =>
          heap[box[b].ptr].st = "live" /\ heap[box[b].ptr].frees = 0

C8_Step ==
    /\ (last'.op \in {"into_bytes", "from_utf8", "from_utf8_unchecked"}) =>
          heap' = heap /\ cnt' = cnt /\ drops' = drops
    /\ last'.op = "into_bytes" =>
          \E b \in Boxes : /\ box[b].st = "live" /\ box[b].kind = "str"
                           /\ box' = [box EXCEPT ![b].kind = "seq"]
    /\ (last'.op = "from_utf8" /\ last'.out = "ok") =>
          \E b \in Boxes : /\ box[b].st = "live" /\ box[b].kind = "seq"
                           /\ Utf8Valid(BytesOf(M, box[b]))
                           /\ box' = [box EXCEPT ![b].kind = "str"]

\* C8: for every text box, into_bytes followed by from_utf8 succeeds and gives back
\* the same text: the same address, the same length and the same content.  Neither
\* conversion allocates, copies or releases anything, so the one allocation is
\* released exactly once, by the drop of whichever view holds it last.
C8_RoundTrip == []C8_State /\ [][C8_Step]_vars

\* A two-byte text made by from_str, turned into bytes and back by from_utf8.
C8_Witness ==
    /\ bld.st = "idle" /\ last.op = "from_utf8" /\ last.out = "ok"
    /\ box[1].st = "live" /\ box[1].kind = "str" /\ box[2].st = "none"
    /\ BytesOf(M, box[1]) = <<195, 136>>
    /\ cnt.malloc = 1 /\ cnt.free = 0

\* ---------------------------------------------------------------- C9
\* The value instances a live box owns.
IdsOf(bx) == {read(M, bx.ptr, i).id : i \in 0..(BoxVals(bx) - 1)}

\* The live boxes other than b keep their content, their storage and their values.
OthersUntouched(b) ==
    \A c \in Boxes \ {b} : box[c].st = "live" =>
        /\ box'[c] = box[c]
        /\ Slice([M EXCEPT !.heap = heap'], box[c]) = Slice(M, box[c])
        /\ box[c].ptr \in Blocks => heap'[box[c].ptr].st = "live"
        /\ tkind = "dc" => \A i \in IdsOf(box[c]) : drops'[i] = 0

C9_State ==
    /\ NoDoubleFree
    /\ Conservation
    /\ \A b \in Boxes : box[b].st = "live" =>
          /\ box[b].ptr \in Blocks => IsLive(M, box[b].ptr)
          /\ SizeOfT # 0 /\ BoxVals(box[b]) > 0 => box[b].ptr \in Blocks
          /\ tkind = "dc" => \A i \in IdsOf(box[b]) : i > 0 /\ drops[i] = 0
          /\ \A c \in Boxes \ {b} : box[c].st = "live" =>
                /\ box[b].ptr \in Blocks => box[c].ptr # box[b].ptr
                /\ tkind = "dc" => IdsOf(box[b]) \cap IdsOf(box[c]) = {}
          /\ (Building /\ box[b].ptr \in Blocks) => bld.ptr # box[b].ptr

C9_Step ==
    /\ (last'.op = "clone" /\ last'.out = "ok" /\ ~Building') =>
          \E b, c \in Boxes :
              /\ box[b].st = "live" /\ box[c].st = "none" /\ box'[c].st = "live"
              /\ OthersUntouched(c)
              /\ Payloads(Slice([M EXCEPT !.heap = heap'], box'[c])) = Payloads(Slice(M, box[b]))
    /\ (last'.op = "into_mboxed_slice" /\ bld.st = "slice") =>
          /\ OthersUntouched(bld.dst)
          /\ box'[bld.dst].len = Len(bld.src)
          /\ Payloads(Slice([M EXCEPT !.heap = heap'], box'[bld.dst])) = Payloads(bld.src)
    /\ last'.op = "push" => OthersUntouched(bld.dst)
    /\ last'.op = "deref_mut" =>
          \E b \in Boxes : box[b].st = "live" /\ OthersUntouched(b)
    /\ last'.op = "drop" =>
          \E b \in Boxes :
              /\ box[b].st = "live" /\ box'[b].st = "dropped"
              /\ OthersUntouched(b)
              /\ TotalDrops' = TotalDrops + BoxVals(box[b])
              /\ cnt'.gen_free = cnt.gen_free + 1
              /\ cnt'.free = cnt.free + (IF box[b].ptr = DANGLING THEN 0 ELSE 1)

\* C9: a clone (of a single value or of a sequence) lives in a block of its own
\* and owns value instances of its own with the original's payloads; building,
\* mutating or dropping one box leaves every other live box's content unchanged,
\* its block allocated and its values undestroyed; the drop of a box of n values
\* is exactly n destructor runs and one release, so original and clone are each
\* destroyed and released exactly once, independently of each other.
C9_CloneIndependent == []C9_State /\ [][C9_Step]_vars

\* The clone of a two-element sequence was mutated and dropped: two destructions
\* and one release, the original still whole.
C9_Witness ==
    /\ tkind = "dc" /\ last.op = "drop"
    /\ box[1].st = "live" /\ box[1].kind = "seq" /\ box[1].len = 2
    /\ box[2].st = "dropped" /\ box[2].len = 2
    /\ Payloads(Slice(M, box[1])) = <<0, 0>>
    /\ heap[box[2].ptr].cells[1].val = 1
    /\ TotalDrops = 2 /\ cnt.free = 1 /\ cnt.made = 4
    /\ IsLive(M, box[1].ptr)

\* ---------------------------------------------------------------- C10
C10_State ==
    /\ NoDoubleFree
    /\ Conservation
    /\ \A b \in Boxes : (box[b].kind = "val" /\ tkind = "dc") =>
          /\ box[b].st = "live" =>
                /\ IsLive(M, box[b].ptr)
                /\ read(M, box[b].ptr, 0).id > 0
                /\ drops[read(M, box[b].ptr, 0).id] = 0
          /\ box[b].st = "dropped" => drops[heap[box[b].ptr].cells[1].id] = 1

C10_Step ==
    /\ (last'.op = "clone_from" /\ last'.out = "panic") =>
          heap' = heap /\ drops' = drops /\ cnt' = cnt /\ box' = box /\ ub' = ub
    /\ (last'.op = "clone_from" /\ last'.out = "ok") =>
          /\ box' = box
          /\ AllocCalls(cnt') = AllocCalls(cnt) /\ cnt'.gen_free = cnt.gen_free
          /\ cnt'.made = cnt.made + 1
          /\ tkind # "u8" => TotalDrops' = TotalDrops + 1
          /\ \E b, b2 \in Boxes :
                LET old == read(M, box[b].ptr, 0)
                    new == read([M EXCEPT !.heap = heap'], box[b].ptr, 0)
                    src == read(M, box[b2].ptr, 0)
                IN  /\ b # b2 /\ box[b].st = "live" /\ box[b2].st = "live"
                    /\ new.val = src.val
                    /\ read([M EXCEPT !.heap = heap'], box[b2].ptr, 0) = src
                    /\ tkind = "dc" =>
                          /\ drops'[old.id] = 1 /\ drops'[src.id] = 0
                          /\ new.id \notin {old.id, src.id} /\ drops'[new.id] = 0

\* C10: when the clone of the source panics, clone_from has destroyed nothing and
\* changed nothing: destination and source hold their values as before, and the
\* destination's value is destroyed once, when its box is dropped.  When the clone
\* succeeds, the destination's old value is destroyed exactly once and replaced,
\* in the same allocation, by a new value equal to the source's; the source is
\* unchanged.
C10_CloneFrom == []C10_State /\ [][C10_Step]_vars

\* clone_from panicked while cloning: both boxes still hold undestroyed values.
C10_Witness ==
    /\ tkind = "dc" /\ last.op = "clone_from" /\ last.out = "panic"
    /\ box[1].st = "live" /\ box[2].st = "live"
    /\ read(M, box[1].ptr, 0).val # read(M, box[2].ptr, 0).val
    /\ TotalDrops = 0

\* ---------------------------------------------------------------- C11
\* Every block that is allocated has exactly one owner: nothing is leaked, nothing shared.
NoLeak == \A k \in Blocks : heap[k].st = "live" => Cardinality(Owners(k)) = 1

C11_State ==
    /\ NoDoubleFree
    /\ Conservation
    /\ status = "running" => NoLeak
    /\ \A b \in Boxes : (box[b].st = "dropped" /\ box[b].ptr \in Blocks) =>
          heap[box[b].ptr].st = "freed" /\ heap[box[b].ptr].frees = 1

C11_Step ==
    (last'.op = "clone" /\ last'.out = "panic") =>
        /\ heap' = heap /\ cnt' = cnt /\ drops' = drops /\ ub' = ub
        /\ box' = box /\ raws' = raws /\ status' = status

\* C11: when cloning the pointee panics during the clone of a single-value box,
\* the clone operation has called no allocator and changed no memory, so nothing
\* it allocated can be leaked; the original box is as before, still owns its block
\* alone, and is destroyed and released once when dropped.
C11_ClonePanicNoLeak == []C11_State /\ [][C11_Step]_vars

\* The clone of the only box panicked: one block allocated, owned by the original.
C11_Witness ==
    /\ tkind = "dc" /\ last.op = "clone" /\ last.out = "panic"
    /\ box[1].st = "live" /\ box[2].st = "none" /\ raws = <<>>
    /\ cnt.malloc = 1 /\ cnt.free = 0 /\ TotalDrops = 0
    /\ IsLive(M, box[1].ptr)

\* ---------------------------------------------------------------- C12
\* The identities of a sequence of values.
IdSeq(cs) == [i \in 1..Len(cs) |-> cs[i].id]

C12_State ==
    it.st = "live" =>
        /\ 0 <= it.begin /\ it.begin <= it.end /\ it.end <= it.n
        /\ size_hint(it) = <<it.end - it.begin, it.end - it.begin>>
        /\ tkind = "dc" =>
              LET rest == {read(M, it.ptr, i).id : i \in it.begin..(it.end - 1)} IN
              /\ Cardinality(rest) = it.end - it.begin
              /\ \A j \in 1..Len(held) : held[j].id \notin rest
              /\ \A j, k \in 1..Len(held) : j # k => held[j].id # held[k].id

C12_Step ==
    /\ last'.op \in {"next", "next_back"} =>
          /\ last'.out = (IF it.begin = it.end THEN "none" ELSE "some")
          /\ heap' = heap /\ it'.ptr = it.ptr /\ it'.n = it.n
          /\ last'.out = "none" => it' = it /\ held' = held
          /\ last'.out = "some" => size_hint(it')[1] = size_hint(it)[1] - 1
    /\ (last'.op = "next" /\ last'.out = "some") =>
          /\ held' = Append(held, read(M, it.ptr, it.begin))
          /\ it'.begin = it.begin + 1 /\ it'.end = it.end
    /\ (last'.op = "next_back" /\ last'.out = "some") =>
          /\ held' = Append(held, read(M, it.ptr, it.end - 1))
          /\ it'.end = it.end - 1 /\ it'.begin = it.begin

\* C12: next yields the element at the lowest index not yet yielded and next_back
\* the one at the highest, so the front runs in index order and the back in
\* reverse; both signal exhaustion exactly when begin = end; begin <= end always,
\* no element is yielded twice, and size_hint is (end - begin, Some(end - begin)),
\* one less after every yield.
C12_IterOrder == []C12_State /\ [][C12_Step]_vars

\* Two elements: next yielded index 0, then next_back yielded index 1.
C12_Witness ==
    /\ tkind = "dc" /\ it.st = "live" /\ it.n = 2 /\ it.begin = 1 /\ it.end = 1
    /\ last.op = "next_back" /\ last.out = "some"
    /\ held = <<read(M, it.ptr, 0), read(M, it.ptr, 1)>>
    /\ size_hint(it) = <<0, 0>>

\* The C allocator was not asked to release or to reallocate anything in this step.
NoRealCall == cnt'.free = cnt.free /\ cnt'.realloc = cnt.realloc

C13_State ==
    /\ "free of the sentinel" \notin ub
    /\ "realloc of the sentinel" \notin ub

C13_Step ==
    /\ (last'.op = "gen_free" /\ last'.old = DANGLING) => NoRealCall /\ heap' = heap
    /\ (last'.op = "gen_realloc" /\ last'.old = DANGLING) => NoRealCall
    /\ (last'.op = "drop" /\ \E b \in Boxes :
            box[b].st = "live" /\ box'[b].st = "dropped" /\ box[b].ptr = DANGLING)
          => NoRealCall /\ heap' = heap
    /\ (last'.op = "push" /\ bld.ptr = DANGLING) => NoRealCall
    /\ last'.op = "into_mboxed_slice" => cnt' = cnt /\ heap' = heap
    /\ (bld'.st = "dropped" /\ bld.st # "dropped" /\ bld.ptr = DANGLING)
          => NoRealCall /\ heap' = heap
    /\ (last'.op = "iter_drop" /\ it.ptr = DANGLING) => NoRealCall /\ heap' = heap

\* C13: the sentinel handle is never passed to the C allocator's free or realloc:
\* not by gen_free or gen_realloc, not by the Free implementations for T, [T] and
\* str, not by the builder's push, finalisation or destruction, and not by the
\* destruction of the consuming iterator; an operation given the sentinel makes no
\* free and no realloc call at all.
C13_SentinelNeverReal == []C13_State /\ [][C13_Step]_vars

\* Sized T: an empty sequence was cloned, both were destroyed (one through its
\* iterator), gen_free saw the sentinel each time and the C allocator was never used.
C13_Witness ==
    /\ tkind = "dc" /\ last.op = "iter_drop" /\ it.st = "dropped"
    /\ cnt.gen_free >= 2 /\ cnt.free = 0 /\ cnt.realloc = 0 /\ cnt.malloc = 0
    /\ ub = {}

\* The capacity and the number of reallocations after len of the five pushes.
HelloCap(len) == IF len <= 1 THEN 1 ELSE IF len = 2 THEN 2 ELSE IF len <= 4 THEN 4 ELSE 8

HelloReallocs(len) == IF len <= 1 THEN 0 ELSE IF len = 2 THEN 1 ELSE IF len <= 4 THEN 2 ELSE 3

C14_State ==
    /\ (status = "running" /\ bld.st = "iter") =>
          /\ bld.cap0 = 1
          /\ bld.cap = HelloCap(bld.len)
          /\ cnt.realloc = HelloReallocs(bld.len)
          /\ BytesOf(M, as_mboxed_slice(bld)) = SubSeq(HelloBytes, 1, bld.len)
    /\ (box[1].st = "live" /\ box[1].len = Len(HelloBytes)) =>
          /\ cnt.realloc = 3 /\ cnt.malloc = 1
          /\ BytesOf(M, box[1]) = HelloBytes
          /\ Len(heap[box[1].ptr].cells) = 8
    /\ ub = {}

C14_Step ==
    /\ (last'.op = "push" /\ last'.out = "ok") =>
          /\ bld'.len = bld.len + 1
          /\ bld'.cap = (IF bld.len = bld.cap THEN 2 * bld.cap ELSE bld.cap)
          /\ cnt'.realloc = (IF bld.len = bld.cap THEN cnt.realloc + 1 ELSE cnt.realloc)
    /\ (last'.op = "into_mboxed_slice" /\ bld.len = Len(HelloBytes)) =>
          /\ box'[1].st = "live" /\ box'[1].kind = "seq" /\ box'[1].len = 5
          /\ BytesOf(M, box'[1]) = HelloBytes
    /\ (last'.op = "from_utf8" /\ box[1].len = Len(HelloBytes)) =>
          /\ last'.out = "ok"
          /\ box'[1].st = "live" /\ box'[1].kind = "str"
          /\ BytesOf(M, box'[1]) = HelloBytes
          /\ heap' = heap /\ cnt' = cnt

\* C14: the bytes 68 65 6c 6c 6f pushed one at a time into a builder of capacity 1
\* make exactly 3 reallocations, the capacity going 1, 2, 4, 8; finalising gives a
\* 5-byte sequence with those bytes in order, and from_utf8 makes of it the text
\* "hello".
C14_Hello == []C14_State /\ [][C14_Step]_vars

\* The five bytes were pushed, the builder finalised and the bytes made a text.
C14_Witness ==
    /\ last.op = "from_utf8" /\ last.out = "ok"
    /\ box[1].st = "live" /\ box[1].kind = "str"
    /\ BytesOf(M, box[1]) = HelloBytes
    /\ cnt.realloc = 3 /\ Len(heap[box[1].ptr].cells) = 8

\* ---------------------------------------------------------------- C15
C15_State ==
    /\ NoDoubleFree
    /\ \A b \in Boxes :
          (box[b].st = "dropped" /\ box[b].kind = "seq" /\ box[b].ptr \in Blocks) =>
              heap[box[b].ptr].st = "freed" /\ heap[box[b].ptr].frees = 1

C15_Step ==
    \A b \in Boxes :
        (last'.op = "drop" /\ box[b].st = "live" /\ box'[b].st = "dropped"
            /\ box[b].kind = "seq") =>
            LET p == box[b].ptr
                n == box[b].len
                ids == IdsOf(box[b])
            IN  /\ cnt'.gen_free = cnt.gen_free + 1
                /\ cnt'.realloc = cnt.realloc /\ cnt'.malloc = cnt.malloc
                /\ ub' = ub
                /\ tkind = "dc" =>
                      /\ Cardinality(ids) = n
                      /\ \A i \in 1..MaxId :
                            drops'[i] = (IF i \in ids THEN drops[i] + 1 ELSE drops[i])
                      /\ \A i \in ids : drops[i] = 0
                /\ tkind = "zst" => drops' = [drops EXCEPT ![ZstId] = @ + n]
                /\ IF p \in Blocks
                   THEN /\ cnt'.free = cnt.free + 1
                        /\ heap[p].st = "live"
                        /\ heap' = [heap EXCEPT ![p].st = "freed", ![p].frees = 1]
                   ELSE cnt'.free = cnt.free /\ heap' = heap

\* C15: dropping a sequence box of from_raw_parts(ptr, n) runs the destructor of
\* each of its n elements exactly once, all of them on the still live block, and
\* then calls gen_free once with the sequence's starting address: the block is
\* released once, its cells as the destructors left them, and nothing else changes.
C15_SliceDrop == []C15_State /\ [][C15_Step]_vars

\* A two-element sequence in a block of the C heap was dropped.
C15_Witness ==
    /\ tkind = "dc" /\ last.op = "drop"
    /\ box[1].st = "dropped" /\ box[1].kind = "seq" /\ box[1].len = 2
    /\ box[1].ptr \in Blocks /\ heap[box[1].ptr].st = "freed"
    /\ TotalDrops = 2 /\ cnt.free = 1 /\ cnt.gen_free = 1

\* ---------------------------------------------------------------- C16
\* Slot i of the builder's storage holds a value.
Initialised(i) == read(M, bld.ptr, i) # Uninit

C16_State ==
    (status = "running" /\ bld.st = "iter") =>
        /\ bld.len <= bld.cap
        /\ \A i \in 0..(bld.len - 1) : Initialised(i)
        /\ SizeOfT # 0 =>
              /\ bld.cap > 0 => IsLive(M, bld.ptr) /\ Len(heap[bld.ptr].cells) = bld.cap
              /\ \A i \in bld.len..(bld.cap - 1) : ~Initialised(i)

C16_Step ==
    (last'.op = "push" /\ last'.out = "ok") =>
        /\ bld.len < bld'.cap
        /\ "write outside a live allocation" \notin ub'

MallocNoOverflow(count) ==
    IF SizeOfT = 0 \/ count = 0
    THEN /\ last'.out = "ok" /\ last'.ptr = DANGLING
         /\ cnt' = cnt /\ heap' = heap /\ status' = status
    ELSE /\ cnt' = [cnt EXCEPT !.malloc = @ + 1]
         /\ \/ /\ last'.out = "ok" /\ last'.ptr \in Blocks
               /\ heap[last'.ptr].st = "unalloc"
               /\ heap' = [heap EXCEPT ![last'.ptr] =
                              [st |-> "live", cells |-> [i \in 1..count |-> Uninit],
                               frees |-> 0]]
               /\ status' = status
               /\ raws' = Append(raws, MemHandle(last'.ptr))
            \/ /\ last'.out = "abort" /\ last'.ptr = NULL
               /\ heap' = heap /\ status' = "aborted" /\ raws' = raws

\* The step is a gen_malloc(count) whose size overflowed and that ended as `out`.
MallocOverflow(out) ==
    /\ last'.out = out /\ cnt' = cnt /\ heap' = heap /\ raws' = raws
    /\ status' = (IF out = "abort" THEN "aborted" ELSE status)

Overflows(count) == SizeOfT # 0 /\ checked_mul(count, SizeOfT) = NULL

C17_State == \A i \in 1..Len(raws) : raws[i].kind = "mem" => raws[i].ptr # NULL

C17_StepAsClaimed ==
    last'.op = "gen_malloc" =>
        IF Overflows(last'.count) THEN MallocOverflow("abort")
        ELSE MallocNoOverflow(last'.count)

C17_Step ==
    last'.op = "gen_malloc" =>
        IF Overflows(last'.count) THEN MallocOverflow("panic")
        ELSE MallocNoOverflow(last'.count)

HandleReplaced(old, new) ==
    \E i \in 1..Len(raws) : raws[i].ptr = old /\ raws' = [raws EXCEPT ![i].ptr = new]

C18_State ==
    /\ ub = {}
    /\ \A i \in 1..Len(raws) :
          raws[i].ptr = DANGLING \/ (raws[i].ptr \in Blocks /\ IsLive(M, raws[i].ptr))

C18_Step ==
    last'.op = "gen_realloc" =>
        LET old == last'.old
            new == last'.ptr
            n == last'.count
        IN  IF SizeOfT = 0
            THEN /\ last'.out = "ok" /\ new = old
                 /\ cnt' = cnt /\ heap' = heap /\ raws' = raws
            ELSE IF n = 0
            THEN /\ last'.out = "ok" /\ new = DANGLING /\ HandleReplaced(old, DANGLING)
                 /\ cnt'.malloc = cnt.malloc /\ cnt'.realloc = cnt.realloc
                 /\ cnt'.gen_free = cnt.gen_free + 1
                 /\ IF old = DANGLING
                    THEN cnt'.free = cnt.free /\ heap' = heap
                    ELSE /\ cnt'.free = cnt.free + 1
                         /\ heap' = [heap EXCEPT ![old].st = "freed", ![old].frees = 1]
            ELSE IF old = DANGLING
            THEN /\ cnt'.realloc = cnt.realloc /\ cnt'.free = cnt.free
                 /\ cnt'.gen_free = cnt.gen_free
                 /\ \E res \in MallocAnswers(M) :
                       LET r == gen_malloc(M, n, res) IN
                       /\ last'.out = r.out /\ new = r.ptr
                       /\ heap' = r.m.heap /\ cnt' = r.m.cnt
                 /\ last'.out = "ok" => new \in Blocks /\ HandleReplaced(old, new)
            ELSE /\ cnt'.malloc = cnt.malloc /\ cnt'.free = cnt.free
                 /\ cnt'.gen_free = cnt.gen_free
                 /\ ~Overflows(n) => cnt'.realloc = cnt.realloc + 1
                 /\ last'.out = "ok" =>
                       /\ cnt'.realloc = cnt.realloc + 1
                       /\ new \in Blocks /\ HandleReplaced(old, new)
                       /\ heap'[new].st = "live" /\ Len(heap'[new].cells) = n
                       /\ \A k \in 1..n : k <= Len(heap[old].cells) =>
                             heap'[new].cells[k] = heap[old].cells[k]
                       /\ new # old => heap[new].st = "unalloc" /\ heap'[old].st = "moved"
                       /\ \A k \in Blocks \ {old, new} : heap'[k] = heap[k]
                 /\ last'.out # "ok" => heap' = heap /\ raws' = raws

\* C18: gen_realloc(ptr, new_count) decides in this order: a zero-size T returns
\* ptr unchanged with no allocator call; else new_count = 0 calls gen_free(ptr)
\* (nothing for the sentinel) and returns the sentinel; else the sentinel
\* delegates to gen_malloc(new_count); else libc::realloc is called and, when it
\* succeeds, the handle returned is the one it produced: a live block of
\* new_count slots keeping the old prefix, the old block retired if it moved.
C18_ReallocCases == []C18_State /\ [][C18_Step]_vars

\* A real block was reallocated to a larger count and moved.
C18_Witness ==
    /\ tkind = "dc" /\ last.op = "gen_realloc" /\ last.out = "ok"
    /\ last.old \in Blocks /\ last.ptr \in Blocks /\ last.ptr # last.old
    /\ heap[last.old].st = "moved" /\ heap[last.ptr].st = "live"
    /\ Len(heap[last.ptr].cells) = 2 /\ cnt.realloc = 1

\* ---------------------------------------------------------------- C19
\* How gen_malloc(count) ends when the C allocator answers null, or never gets
\* asked because the size overflows.
MallocFailure(count) == gen_malloc(M, count, NULL).out

\* The step is a gen_realloc of a real handle to a count above zero.
RealRealloc ==
    /\ last'.op = "gen_realloc" /\ SizeOfT # 0
    /\ last'.old \in Blocks /\ last'.count > 0

\* The failed step returned no handle and left the block and the caller's handle.
NoHandleReturned == last'.ptr = NULL /\ heap' = heap /\ raws' = raws

C19_StepAsClaimed ==
    RealRealloc =>
        /\ Overflows(last'.count) =>
              /\ last'.out = MallocFailure(last'.count)
              /\ cnt' = cnt /\ NoHandleReturned
        /\ (~Overflows(last'.count) /\ last'.out # "ok") =>
              /\ last'.out = MallocFailure(last'.count)
              /\ cnt' = [cnt EXCEPT !.realloc = @ + 1] /\ NoHandleReturned

C19_Step ==
    RealRealloc =>
        /\ Overflows(last'.count) =>
              /\ last'.out = "abort" /\ status' = "aborted"
              /\ MallocFailure(last'.count) = "panic"
              /\ cnt' = cnt /\ NoHandleReturned
        /\ (~Overflows(last'.count) /\ last'.out # "ok") =>
              /\ last'.out = "abort" /\ status' = "aborted"
              /\ MallocFailure(last'.count) = "abort"
              /\ cnt' = [cnt EXCEPT !.realloc = @ + 1] /\ NoHandleReturned

C20_State ==
    /\ NoDoubleFree
    /\ \A b \in Boxes : (box[b].st = "dropped" /\ box[b].ptr \in Blocks) =>
          heap[box[b].ptr].st = "freed" /\ heap[box[b].ptr].frees = 1

C20_Step ==
    /\ last'.op = "into_mboxed_slice" =>
          /\ box' = [box EXCEPT ![bld.dst] =
                        [st |-> "live", kind |-> "seq", ptr |-> bld.ptr, len |-> bld.len]]
          /\ heap' = heap /\ cnt' = cnt /\ drops' = drops /\ ub' = ub
          /\ (SizeOfT # 0 /\ bld.cap > 0) =>
                /\ IsLive(M, bld.ptr) /\ Len(heap[bld.ptr].cells) = bld.cap
                /\ bld.len <= bld.cap
          /\ bld'.st = "done"
    /\ bld.st = "done" => bld' = bld
    /\ \A b \in Boxes :
          (bld.st = "done" /\ last'.op = "drop" /\ box[b].st = "live"
              /\ box'[b].st = "dropped" /\ box[b].kind = "seq") =>
              /\ TotalDrops' = TotalDrops + box[b].len
              /\ cnt'.gen_free = cnt.gen_free + 1 /\ cnt'.realloc = cnt.realloc
              /\ box[b].ptr \in Blocks =>
                    /\ cnt'.free = cnt.free + 1
                    /\ heap' = [heap EXCEPT ![box[b].ptr].st = "freed",
                                            ![box[b].ptr].frees = 1]

\* C20: into_mboxed_slice makes the sequence box (ptr, len) at the builder's
\* current address, over its first len slots; it reallocates nothing, destroys
\* nothing and releases nothing, and the builder ends there: nothing of it runs
\* afterwards.  The block, of cap slots, is released whole and exactly once, when
\* the box is dropped, after the destructors of its len elements only.
C20_Finalize == []C20_State /\ [][C20_Step]_vars

\* One value pushed into a capacity of two, finalised, and the box dropped: the
\* two-slot block was released once and one destructor ran.
C20_Witness ==
    /\ tkind = "dc" /\ bld.st = "done" /\ last.op = "drop"
    /\ \E b \in Boxes :
          /\ box[b].st = "dropped" /\ box[b].kind = "seq" /\ box[b].len = 1
          /\ box[b].ptr \in Blocks
          /\ Len(heap[box[b].ptr].cells) = 2
          /\ heap[box[b].ptr].st = "freed" /\ heap[box[b].ptr].frees = 1
    /\ TotalDrops = 1 /\ cnt.realloc = 0

\* ---------------------------------------------------------------- C21
\* Some live sequence box still holds exactly the elements the build copies from.
SourceIntact == \E b \in Boxes : box[b].st = "live" /\ box[b].kind = "seq"
                                 /\ Slice(M, box[b]) = bld.src

C21_State ==
    /\ cnt.realloc = 0
    /\ (status = "running" /\ bld.st = "slice") =>
          /\ bld.cap = Len(bld.src) /\ bld.cap0 = Len(bld.src)
          /\ bld.len <= Len(bld.src)
          /\ Payloads(bld.pushed) = Payloads(SubSeq(bld.src, 1, bld.len))
          /\ Slice(M, as_mboxed_slice(bld)) = bld.pushed
          /\ SourceIntact
          /\ tkind = "dc" =>
                \A i \in 1..Len(bld.pushed), j \in 1..Len(bld.src) :
                    bld.pushed[i].id # bld.src[j].id

C21_Step ==
    /\ (last'.op = "clone" /\ last'.out = "ok" /\ bld'.st = "slice") =>
          /\ bld'.cap = Len(bld'.src) /\ bld'.len = 0
          /\ cnt'.malloc = cnt.malloc + (IF SizeOfT = 0 \/ Len(bld'.src) = 0 THEN 0 ELSE 1)
    /\ (last'.op = "push" /\ bld.st = "slice") =>
          /\ cnt'.malloc = cnt.malloc /\ cnt'.realloc = cnt.realloc /\ cnt'.free = cnt.free
          /\ bld'.ptr = bld.ptr /\ bld'.cap = bld.cap /\ bld'.len = bld.len + 1
          /\ box' = box
    /\ (last'.op = "into_mboxed_slice" /\ bld.st = "slice") =>
          /\ bld.len = Len(bld.src)
          /\ box'[bld.dst].st = "live" /\ box'[bld.dst].len = Len(bld.src)
          /\ Payloads(Slice(M, box'[bld.dst])) = Payloads(bld.src)
          /\ \E b \in Boxes \ {bld.dst} :
                /\ box'[b] = box[b] /\ box[b].st = "live"
                /\ Slice(M, box[b]) = bld.src
                /\ box[b].ptr \in Blocks => box'[bld.dst].ptr # box[b].ptr
          /\ heap' = heap

\* C21: from_slice of a slice of length m starts its builder at capacity m, so no
\* push of the build reallocates or moves the storage; the result has length m
\* and its element i is a clone of source element i (same payload, an instance of
\* its own); the source keeps its elements throughout.
C21_FromSlice == []C21_State /\ [][C21_Step]_vars

\* A two-element sequence was cloned: two boxes with the payloads 0, 1 in two
\* blocks, and no reallocation.
C21_Witness ==
    /\ tkind = "dc" /\ last.op = "into_mboxed_slice" /\ cnt.realloc = 0
    /\ box[1].st = "live" /\ box[2].st = "live" /\ box[2].len = 2
    /\ Payloads(Slice(M, box[1])) = <<0, 1>>
    /\ Payloads(Slice(M, box[2])) = <<0, 1>>
    /\ box[1].ptr # box[2].ptr
    /\ IdsOf(box[1]) \cap IdsOf(box[2]) = {}

\* ---------------------------------------------------------------- C22
\* The capacity from_iter starts with for the size hint (lower, upper).
SeedCapacity(lower, upper) ==
    IF upper # NULL THEN (IF upper >= 1 THEN upper ELSE 1)
    ELSE (IF lower >= 1 THEN lower ELSE 1)

C22_State ==
    /\ ub = {}
    /\ (status = "running" /\ bld.st = "iter") =>
          /\ bld.cap0 >= 1 /\ bld.cap >= bld.cap0
          /\ bld.len = Len(bld.pushed) /\ bld.len <= bld.cap
          /\ Slice(M, as_mboxed_slice(bld)) = bld.pushed

C22_Step ==
    /\ (last'.op = "from_iter" /\ last'.out = "ok") =>
          /\ bld'.st = "iter" /\ bld'.len = 0 /\ bld'.pushed = <<>>
          /\ bld'.cap = SeedCapacity(last'.lower, last'.upper)
          /\ bld'.cap0 = bld'.cap /\ bld'.cap >= 1
    /\ (last'.op = "push" /\ last'.out = "ok" /\ bld.st = "iter") =>
          /\ bld'.len = bld.len + 1
          /\ SubSeq(bld'.pushed, 1, bld.len) = bld.pushed
          /\ read([M EXCEPT !.heap = heap'], bld'.ptr, bld.len) = bld'.pushed[bld'.len]
          /\ cnt'.realloc = cnt.realloc + (IF SizeOfT # 0 /\ bld.len = bld.cap THEN 1 ELSE 0)
    /\ (last'.op = "into_mboxed_slice" /\ bld.st = "iter") =>
          /\ box'[bld.dst].st = "live" /\ box'[bld.dst].kind = "seq"
          /\ box'[bld.dst].len = Len(bld.pushed)
          /\ Slice(M, box'[bld.dst]) = bld.pushed
          /\ heap' = heap

\* C22: from_iter starts its builder at the capacity max(upper if present, else
\* lower, 1), which is at least 1, and pushes every produced element in the order
\* of production, reallocating when the capacity is used up; the result's length
\* is the number of elements produced and its element i the i-th produced,
\* whether the size hint was below or above that number.
C22_FromIter == []C22_State /\ [][C22_Step]_vars

\* The hint promised at most one element and two were produced: one reallocation,
\* and a result of length two in production order.
C22_Witness ==
    /\ tkind = "dc" /\ last.op = "into_mboxed_slice" /\ bld.st = "done"
    /\ cnt.malloc = 1 /\ cnt.realloc = 1
    /\ \E b \in Boxes : /\ box[b].st = "live" /\ box[b].len = 2
                        /\ IdSeq(Slice(M, box[b])) = <<1, 2>>

\* ---------------------------------------------------------------- C23
C23_State ==
    /\ NoDoubleFree
    /\ tkind = "dc" => TotalDrops <= cnt.made

C23_Step ==
    /\ (last'.op = "clone_from" /\ last'.out = "ok") =>
          /\ box' = box /\ raws' = raws
          /\ cnt'.malloc = cnt.malloc /\ cnt'.realloc = cnt.realloc
          /\ cnt'.free = cnt.free /\ cnt'.gen_free = cnt.gen_free
          /\ \A k \in Blocks : heap'[k].st = heap[k].st /\ heap'[k].frees = heap[k].frees
          /\ tkind # "u8" => TotalDrops' = TotalDrops + 1
          /\ \E dst, src \in Boxes :
                LET old == read(M, box[dst].ptr, 0)
                    new == read([M EXCEPT !.heap = heap'], box[dst].ptr, 0)
                    val == read(M, box[src].ptr, 0)
                IN  /\ dst # src /\ box[dst].st = "live" /\ box[src].st = "live"
                    /\ new.val = val.val /\ new # Uninit
                    /\ \A k \in Blocks \ {box[dst].ptr} : heap'[k] = heap[k]
                    /\ tkind = "dc" =>
                          /\ drops' = [drops EXCEPT ![old.id] = 1]
                          /\ drops[old.id] = 0
                          /\ new.id \notin {old.id, val.id} /\ drops[new.id] = 0
    /\ \A b \in Boxes :
          (last'.op = "drop" /\ box[b].st = "live" /\ box'[b].st = "dropped"
              /\ box[b].kind = "val") =>
              /\ tkind # "u8" => TotalDrops' = TotalDrops + 1
              /\ tkind = "dc" =>
                    LET c == read(M, box[b].ptr, 0) IN
                    drops[c.id] = 0 /\ drops' = [drops EXCEPT ![c.id] = 1]

\* C23: a clone_from whose clone succeeds leaves the destination box, its address
\* and every block's allocation state as they were and calls neither the
\* allocator nor gen_free; it runs exactly one destructor, that of the
\* destination's old value, and leaves in the destination a new instance equal to
\* the source's value; the later drop of either box runs exactly one destructor,
\* that of the value the box then holds.
C23_CloneFromFrame == []C23_State /\ [][C23_Step]_vars

\* Two boxes, a clone_from between them, both dropped: three values were made
\* with two allocations, and each was destroyed exactly once.
C23_Witness ==
    /\ tkind = "dc" /\ last.op = "drop"
    /\ box[1].st = "dropped" /\ box[2].st = "dropped"
    /\ box[1].kind = "val" /\ box[2].kind = "val"
    /\ cnt.malloc = 2 /\ cnt.free = 2 /\ cnt.made = 3
    /\ \A i \in 1..3 : drops[i] = 1

\* ---------------------------------------------------------------- C24
C24_State == \A i \in 1..MaxId : drops[i] <= 1

C24_Step ==
    (last'.op = "clone_from" /\ last'.out = "drop_panic") =>
        /\ box' = box /\ cnt'.made = cnt.made + 1
        /\ drops'[nextId] = 1
        /\ TotalDrops' = TotalDrops + 2

\* C24: when, in clone_from, the destructor of the destination's old pointee
\* panics after the clone was made, no value is destroyed twice: the clone is
\* destroyed exactly once, and the old pointee is not destroyed again when the
\* destination box is dropped.
C24_DropPanicNoDoubleDrop == []C24_State /\ [][C24_Step]_vars

\* ---------------------------------------------------------------- C25
\* The step released the live block p, and only that, destroying nothing.
ReleasedOnly(p) ==
    /\ heap[p].st = "live"
    /\ heap' = [heap EXCEPT ![p].st = "freed", ![p].frees = 1]
    /\ cnt' = [cnt EXCEPT !.free = @ + 1, !.gen_free = @ + 1]
    /\ drops' = drops /\ ub' = ub

C25_State ==
    /\ NoDoubleFree
    /\ status = "running" =>
          \A k \in Blocks : heap[k].st = "live" =>
              \/ Owners(k) # {}
              \/ Building /\ bld.ptr = k
              \/ it.st = "live" /\ it.ptr = k

C25_Step ==
    /\ (last'.op = "into_mboxed_slice" /\ bld.len = 0 /\ SizeOfT # 0) =>
          /\ box'[bld.dst].len = 0 /\ box'[bld.dst].ptr \in Blocks
          /\ IsLive(M, box'[bld.dst].ptr)
    /\ \A b \in Boxes :
          (last'.op = "drop" /\ box[b].st = "live" /\ box'[b].st = "dropped"
              /\ box[b].kind = "seq" /\ box[b].len = 0 /\ box[b].ptr \in Blocks) =>
              ReleasedOnly(box[b].ptr)
    /\ (last'.op = "into_iter" /\ it'.n = 0) =>
          /\ it'.begin = 0 /\ it'.end = 0
          /\ heap' = heap /\ cnt' = cnt /\ drops' = drops
    /\ (last'.op = "iter_drop" /\ it.n = 0 /\ it.ptr \in Blocks) => ReleasedOnly(it.ptr)

\* C25: a sequence box of length 0 over a real allocation (from_iter of an empty
\* iterator of a sized T, which has capacity 1, or from_raw_parts(ptr, 0) of a
\* block) runs no destructor and releases its block exactly once when it is
\* dropped, and likewise when the iterator made of it is dropped; the block is
\* never left allocated without an owner.
C25_EmptyRealSeq == []C25_State /\ [][C25_Step]_vars

\* An empty iterator of a sized T was collected, the box turned into an iterator
\* and the iterator dropped: one allocation, one release, no value, no destructor.
C25_Witness ==
    /\ tkind = "dc" /\ last.op = "iter_drop" /\ it.st = "dropped" /\ bld.st = "done"
    /\ cnt.malloc = 1 /\ cnt.free = 1 /\ cnt.made = 0 /\ TotalDrops = 0
    /\ heap[1].st = "freed" /\ heap[1].frees = 1

\* ---------------------------------------------------------------- C26
C26_State ==
    /\ ub = {}
    /\ cnt.malloc = 0 /\ cnt.realloc = 0 /\ cnt.free = 0
    /\ \A k \in Blocks : heap[k].st = "unalloc"
    /\ \A b \in Boxes : box[b].ptr = DANGLING
    /\ bld.ptr = DANGLING /\ it.ptr = DANGLING
    /\ Building => bld.len = Len(bld.pushed)
    /\ cnt.made = drops[ZstId] + LiveVals

C26_Step ==
    /\ (last'.op = "push" /\ last'.out = "ok") =>
          /\ bld'.len = bld.len + 1 /\ cnt'.made = cnt.made + 1 /\ drops' = drops
    /\ last'.op = "into_mboxed_slice" =>
          /\ box'[bld.dst].len = Len(bld.pushed) /\ drops' = drops /\ cnt' = cnt
          /\ bld.st = "slice" => box'[bld.dst].len = Len(bld.src)
    /\ (last'.op \in {"next", "next_back"} /\ last'.out = "some") =>
          /\ Len(held') = Len(held) + 1
          /\ it'.end - it'.begin = it.end - it.begin - 1
          /\ drops' = drops
    /\ last'.op = "iter_drop" => drops'[ZstId] = drops[ZstId] + (it.end - it.begin)
    /\ \A b \in Boxes :
          (last'.op = "drop" /\ box[b].st = "live" /\ box'[b].st = "dropped") =>
              drops'[ZstId] = drops[ZstId] + box[b].len
    /\ last'.op = "drop_value" => drops'[ZstId] = drops[ZstId] + 1

\* C26: with a zero-size T, pushes into the builder, clones of the sequence box
\* built and its consuming iteration never call malloc, realloc or free: every
\* handle stays the sentinel, while len counts the pushed elements and every
\* element made is alive in exactly one place or was destroyed exactly once
\* (yielded to the caller, or destroyed by the drop of its box or its iterator).
C26_ZeroSizeBuilder == []C26_State /\ [][C26_Step]_vars

\* Two zero-size values were collected, the box cloned, one box iterated to the
\* end from both sides, the other dropped: four values made, two still held by
\* the caller, two destroyed.
C26_Witness ==
    /\ last.op \in {"next", "next_back"} /\ last.out = "some"
    /\ it.st = "live" /\ it.n = 2 /\ it.begin = it.end
    /\ cnt.made = 4 /\ Len(held) = 2 /\ drops[ZstId] = 2
    /\ \E b \in Boxes : box[b].st = "dropped" /\ box[b].len = 2
    /\ cnt.gen_free = 1

\* ---------------------------------------------------------------- C27
C27_State ==
    it.st = "live" => 0 <= it.begin /\ it.begin <= it.end /\ it.end <= it.n

C27_Step ==
    (it.st = "live" /\ it.begin = it.end) =>
        /\ last'.op \in {"next", "next_back"} =>
              /\ last'.out = "none"
              /\ it' = it /\ held' = held
              /\ heap' = heap /\ drops' = drops /\ ub' = ub /\ cnt' = cnt
        /\ it'.st = "live" => it'.begin = it.begin /\ it'.end = it.end

\* C27: the cursors of the consuming iterator satisfy 0 <= begin <= end <= n in
\* every state; from the moment begin = end, every next and every next_back
\* returns None, reads no slot and hands out no value, and begin and end keep
\* their values for as long as the iterator lives.
C27_Cursor == []C27_State /\ [][C27_Step]_vars

\* A two-element iterator was consumed from the front, and a further next
\* returned None.
C27_Witness ==
    /\ tkind = "dc" /\ it.st = "live" /\ it.n = 2 /\ it.begin = 2 /\ it.end = 2
    /\ last.op = "next" /\ last.out = "none"
    /\ Len(held) = 2

====
